---- MODULE Spec2Model ----
(***************************************************************************)
(* Verification model of the soccer-video-analytics inference core:        *)
(* the Box geometry (inference/types.py, inference/box.py), the geometric  *)
(* filters, the team filter registry (inference/filters.py) and the        *)
(* colour classifier fed from it, the temporal smoothing wrapper, the      *)
(* possession attributor with Team, Ball and Player (soccer/), and the     *)
(* loading of the team configuration (run_utils.py).                       *)
(*                                                                         *)
(* Coordinates are Python floats in the source.  They are modelled as      *)
(* exact fixed-point numbers: an integer n stands for the value n / Denom. *)
(* Areas are therefore in units of 1 / Denom^2 and an IoU is the reduced   *)
(* fraction <<num, den>> of two such areas.                                *)
(***************************************************************************)
EXTENDS Integers, Sequences, FiniteSets, TLC

VARIABLES
    self, other, boxCall,   \* Box operations: receiver, argument, last call
    boxes, filterCall,      \* geometric filters: input list, last call
    filters, teamCall,      \* TeamFilters._filters, last call on it or on
                            \* the classifier it feeds
    history, last_seen, rawLog, smoothCall,
                            \* smoothing wrapper: labels kept per track id,
                            \* calls since the track id was last reported,
                            \* all raw labels received per track id, last call
    players, max_distance, match_teams, team_possession, ball, run, matchCall,
                            \* possession: the players and the distance
                            \* bound of the scene, the Team objects, the
                            \* match's team in possession, the frame's Ball,
                            \* the current run of frames won by one team,
                            \* last frame processed
    setupIn, setupCall      \* construction and configuration loading:
                            \* arguments, last call

boxVars == <<self, other, boxCall>>

filterVars == <<boxes, filterCall>>

teamVars == <<filters, teamCall>>

smoothVars == <<history, last_seen, rawLog, smoothCall>>

matchVars ==
    <<players, max_distance, match_teams, team_possession, ball, run, matchCall>>

setupVars == <<setupIn, setupCall>>

vars ==
    <<self, other, boxCall, boxes, filterCall, filters, teamCall,
      history, last_seen, rawLog, smoothCall,
      players, max_distance, match_teams, team_possession, ball, run, matchCall,
      setupIn, setupCall>>

----------------------------------------------------------------------------
(* Bounds of the model *)

\* coordinates are multiples of 1 / Denom
Denom == 2
\* x ranges over -MaxX..MaxX, y over 0..MaxY (fixed-point units)
MaxX == 3
MaxY == 1
\* width ranges over -1..MaxW, height over -1..MaxH (fixed-point units):
\* one negative size, the zero size and the positive sizes
MaxW == 3
MaxH == 1
\* the boxes handed to the filters lie in a strip [0, FrameW] of unit height
FrameW == 4
\* the filters get lists of at most MaxLen boxes
MaxLen == 3
\* the registry holds at most MaxTeams team filters
MaxTeams == 2
\* a crop handed to the classifier has at most MaxPixels pixels
MaxPixels == 2
\* the image that cut() slices has ImgRows rows and ImgCols columns
ImgRows == 2
ImgCols == 3

\* the smoothing wrapper keeps Window labels per track id, drops a track id
\* not reported for StaleAfter calls, gets at most MaxDets detections per
\* call and at most MaxSteps tracked detections over a behaviour
Window == 4
StaleAfter == 2
MaxDets == 1
MaxSteps == 5

\* possession: a frame has at most MaxPlayers players, a player's box starts
\* at x = 0 or x = MaxPX and is PlayerW wide and high, the ball's box starts
\* at x in 0..MaxBX and is BallW wide, the distance bound of the match is in
\* 0..MaxDist, a behaviour has at most MaxFrames frames
MaxPlayers == 2
MaxPX == 1
PlayerW == 2
MaxBX == 1
BallW == 1
MaxDist == 1
MaxFrames == 2
\* run_utils.py : get_main_ball builds the default ball from a box of this
\* width and height
DefaultBallSize == 10

\* construction and configuration: an abbreviation has at most MaxAbbrev
\* characters, a configuration lists at most MaxEntries teams
MaxAbbrev == 4
MaxEntries == 2

\* a Team Filter configuration lists at most MaxFilterEntries teams with at
\* most MaxColors colour names each
MaxFilterEntries == 1
MaxColors == 2

\* predict_from_detections: a call passes at most MaxBatch detections
MaxBatch == 2

\* masks: an image handed to generate_predictions_mask has MaskSize rows and
\* columns, its boxes start at 0..MaxMaskX, a frame has at most MaxMaskBoxes
\* of them and the margin is at most MaxMargin; update_motion_estimator hides
\* at most MaxHidden detections
MaskSize == 4
MaxMaskX == 2
MaxMaskBoxes == 2
MaxMargin == 2
MaxHidden == 1
\* run_utils.py : create_mask hides detections with this margin and zeroes
\* the goal counter, mask[69:200, 160:510]
MaskMargin == 40
GoalRowStart == 69
GoalRowStop == 200
GoalColStart == 160
GoalColStop == 510
\* run_utils.py : update_motion_estimator, margin of the first fallback mask
FallbackMargin == 20

----------------------------------------------------------------------------
(* Arithmetic helpers standing for Python built-ins *)

Max(p, q) == IF p >= q THEN p ELSE q

Min(p, q) == IF p <= q THEN p ELSE q

Abs(p) == IF p >= 0 THEN p ELSE -p

RECURSIVE Gcd(_, _)
Gcd(p, q) == IF q = 0 THEN p ELSE Gcd(q, p % q)

\* float division p / q (q > 0) as a reduced fraction
Div(p, q) ==
    LET g == Gcd(Abs(p), q)
    IN  <<p \div g, q \div g>>

Zero == <<0, 1>>

\* int(v) of Python: truncation toward zero of the value n / Denom
int(n) == IF n >= 0 THEN n \div Denom ELSE -((-n) \div Denom)

----------------------------------------------------------------------------
(* inference/types.py : class Box *)

Box(x, y, width, height) ==
    [x |-> x, y |-> y, width |-> width, height |-> height]

AllBoxes ==
    { Box(x, y, w, h) : x \in -MaxX..MaxX, y \in 0..MaxY,
                        w \in -1..MaxW, h \in -1..MaxH }

\* area that adds the two sides instead of multiplying them
areaSum(b) == b.width + b.height

area(b) == b.width * b.height

\* points with the second corner taken from the size alone
pointsNoOffset(b) ==
    << <<int(b.x), int(b.y)>>,
       <<int(b.width), int(b.height)>> >>

points(b) ==
    << <<int(b.x), int(b.y)>>,
       <<int(b.x + b.width), int(b.y + b.height)>> >>

\* iou whose union forgets to subtract the intersection
iouNoSubtract(a, b) ==
    LET x1 == Max(a.x, b.x)
        y1 == Max(a.y, b.y)
        x2 == Min(a.x + a.width, b.x + b.width)
        y2 == Min(a.y + a.height, b.y + b.height)
        intersection == (x2 - x1) * (y2 - y1)
        union == (a.width * a.height) + (b.width * b.height)
    IN  IF x2 <= x1 \/ y2 <= y1
        THEN Zero
        ELSE IF union > 0 THEN Div(intersection, union) ELSE Zero

\* iou whose intersection starts at the receiver's own left edge
iouOwnLeft(a, b) ==
    LET x1 == a.x
        y1 == Max(a.y, b.y)
        x2 == Min(a.x + a.width, b.x + b.width)
        y2 == Min(a.y + a.height, b.y + b.height)
        intersection == (x2 - x1) * (y2 - y1)
        union == (a.width * a.height) + (b.width * b.height) - intersection
    IN  IF x2 <= x1 \/ y2 <= y1
        THEN Zero
        ELSE IF union > 0 THEN Div(intersection, union) ELSE Zero

\* iou that divides the intersection by the receiver's own area
iouOverSelf(a, b) ==
    LET x1 == Max(a.x, b.x)
        y1 == Max(a.y, b.y)
        x2 == Min(a.x + a.width, b.x + b.width)
        y2 == Min(a.y + a.height, b.y + b.height)
        intersection == (x2 - x1) * (y2 - y1)
        union == a.width * a.height
    IN  IF x2 <= x1 \/ y2 <= y1
        THEN Zero
        ELSE IF union > 0 THEN Div(intersection, union) ELSE Zero

\* iou whose union adds the intersection instead of subtracting it
iouAddIntersection(a, b) ==
    LET x1 == Max(a.x, b.x)
        y1 == Max(a.y, b.y)
        x2 == Min(a.x + a.width, b.x + b.width)
        y2 == Min(a.y + a.height, b.y + b.height)
        intersection == (x2 - x1) * (y2 - y1)
        union == (a.width * a.height) + (b.width * b.height) + intersection
    IN  IF x2 <= x1 \/ y2 <= y1
        THEN Zero
        ELSE IF union > 0 THEN Div(intersection, union) ELSE Zero

iou(a, b) ==
    LET x1 == Max(a.x, b.x)
        y1 == Max(a.y, b.y)
        x2 == Min(a.x + a.width, b.x + b.width)
        y2 == Min(a.y + a.height, b.y + b.height)
        intersection == (x2 - x1) * (y2 - y1)
        union == area(a) + area(b) - intersection
    IN  IF x2 <= x1 \/ y2 <= y1
        THEN Zero
        ELSE IF union > 0 THEN Div(intersection, union) ELSE Zero

----------------------------------------------------------------------------
(* inference/box.py : Box.cut *)

\* indices (0-based) that the Python slice [lo:hi] selects from n elements
SliceStart(lo, n) == IF lo < 0 THEN Max(lo + n, 0) ELSE Min(lo, n)

Slice(lo, hi, n) ==
    { i \in 0..(n - 1) : SliceStart(lo, n) <= i /\ i < SliceStart(hi, n) }

cut(b) ==
    LET x1 == points(b)[1][1]
        y1 == points(b)[1][2]
        x2 == points(b)[2][1]
        y2 == points(b)[2][2]
    IN  [rows |-> <<y1, y2>>, cols |-> <<x1, x2>>,
         pixels |-> Slice(y1, y2, ImgRows) \X Slice(x1, x2, ImgCols)]

----------------------------------------------------------------------------
(* Specification of the Box operations: two boxes drawn from AllBoxes,     *)
(* every action is one call on them and records what the call returned.    *)

NoCall == [op |-> "none"]

\* values of the variables that a specification does not use
IdleBox ==
    /\ self = [x |-> 0, y |-> 0, width |-> 0, height |-> 0]
    /\ other = [x |-> 0, y |-> 0, width |-> 0, height |-> 0]
    /\ boxCall = NoCall

IdleFilter == boxes = <<>> /\ filterCall = NoCall

IdleTeam == filters = <<>> /\ teamCall = NoCall

IdleSmooth ==
    /\ history = <<>>
    /\ last_seen = <<>>
    /\ rawLog = <<>>
    /\ smoothCall = NoCall

IdleMatch ==
    /\ players = <<>>
    /\ max_distance = 0
    /\ match_teams = <<>>
    /\ team_possession = "none"
    /\ ball = NoCall
    /\ run = NoCall
    /\ matchCall = NoCall

IdleSetup == setupIn = NoCall /\ setupCall = NoCall

InitBox ==
    /\ self \in AllBoxes
    /\ other \in AllBoxes
    /\ boxCall = NoCall
    /\ boxes = <<>>
    /\ filterCall = NoCall
    /\ filters = <<>>
    /\ teamCall = NoCall
    /\ IdleSmooth
    /\ IdleMatch
    /\ IdleSetup

CallArea ==
    /\ boxCall' = [op |-> "area", val |-> area(self)]
    /\ UNCHANGED <<self, other, boxes, filterCall, filters, teamCall,
                   smoothVars, matchVars, setupVars>>

CallPoints ==
    /\ boxCall' = [op |-> "points", val |-> points(self)]
    /\ UNCHANGED <<self, other, boxes, filterCall, filters, teamCall,
                   smoothVars, matchVars, setupVars>>

CallIou ==
    /\ boxCall' = [op |-> "iou", val |-> iou(self, other)]
    /\ UNCHANGED <<self, other, boxes, filterCall, filters, teamCall,
                   smoothVars, matchVars, setupVars>>

CallIouSelf ==
    /\ boxCall' = [op |-> "iou_self", val |-> iou(self, self)]
    /\ UNCHANGED <<self, other, boxes, filterCall, filters, teamCall,
                   smoothVars, matchVars, setupVars>>

CallCut ==
    /\ boxCall' = [op |-> "cut", val |-> cut(self)]
    /\ UNCHANGED <<self, other, boxes, filterCall, filters, teamCall,
                   smoothVars, matchVars, setupVars>>

NextBox == CallArea \/ CallPoints \/ CallIou \/ CallIouSelf \/ CallCut

SpecBox == InitBox /\ [][NextBox]_vars

----------------------------------------------------------------------------
(* inference/filters.py : filter_boxes_by_area, filter_boxes_by_overlap    *)
(* (imported by tests/test_inference.py; modelled after the design,        *)
(* section 4.2).  A result is the sequence of input positions that are     *)
(* returned: the functions return the input's own Box objects.             *)

\* fractions: p <= q for p = <<n, d>>, q = <<m, e>> with d, e > 0
Leq(p, q) == p[1] * q[2] <= q[1] * p[2]

\* keep boxes with area >= min_area, in input order
filter_boxes_by_area(bs, min_area) ==
    LET RECURSIVE Pass(_, _)
        Pass(i, kept) ==
            IF i > Len(bs) THEN kept
            ELSE IF area(bs[i]) >= min_area
                 THEN Pass(i + 1, Append(kept, i))
                 ELSE Pass(i + 1, kept)
    IN  Pass(1, <<>>)

\* sorted(boxes, key=area, reverse=True): stable, equal areas in input order
SortedByArea(bs) ==
    LET RECURSIVE Ins(_, _)
        \* insert position i behind every position of area >= its own
        Ins(sorted, i) ==
            IF sorted = <<>> THEN <<i>>
            ELSE IF area(bs[Head(sorted)]) >= area(bs[i])
                 THEN <<Head(sorted)>> \o Ins(Tail(sorted), i)
                 ELSE <<i>> \o sorted
        RECURSIVE Sort(_, _)
        Sort(i, sorted) ==
            IF i > Len(bs) THEN sorted ELSE Sort(i + 1, Ins(sorted, i))
    IN  Sort(1, <<>>)

\* greedy suppression: visit by descending area, keep a box only if its
\* IoU against every already-kept box is <= iou_threshold
filter_boxes_by_overlap(bs, iou_threshold) ==
    LET order == SortedByArea(bs)
        RECURSIVE Greedy(_, _)
        Greedy(k, kept) ==
            IF k > Len(order) THEN kept
            ELSE IF \A j \in 1..Len(kept) :
                       Leq(iou(bs[order[k]], bs[kept[j]]), iou_threshold)
                 THEN Greedy(k + 1, Append(kept, order[k]))
                 ELSE Greedy(k + 1, kept)
    IN  Greedy(1, <<>>)

----------------------------------------------------------------------------
(* Specification of the filters: a list of boxes drawn from FilterBoxes,   *)
(* every action is one call of a filter on it with some threshold.         *)

\* boxes of positive size inside the strip
FilterBoxes ==
    { Box(p[1], 0, p[2], Denom) :
        p \in { q \in (0..FrameW) \X (1..FrameW) : q[1] + q[2] <= FrameW } }

BoxLists == UNION { [1..n -> FilterBoxes] : n \in 0..MaxLen }

\* thresholds as fractions; the default iou_threshold is 0.5
Thresholds == { <<0, 1>>, <<1, 2>>, <<1, 1>> }

MinAreas == { m * Denom : m \in 0..(FrameW + 1) }

Pick(bs, idx) == [k \in 1..Len(idx) |-> bs[idx[k]]]

InitFilter ==
    /\ boxes \in BoxLists
    /\ filterCall = NoCall
    /\ self = Box(0, 0, 0, 0)
    /\ other = Box(0, 0, 0, 0)
    /\ boxCall = NoCall
    /\ filters = <<>>
    /\ teamCall = NoCall
    /\ IdleSmooth
    /\ IdleMatch
    /\ IdleSetup

FilterByArea ==
    /\ \E min_area \in MinAreas :
          LET idx == filter_boxes_by_area(boxes, min_area)
          IN  filterCall' = [op |-> "area", arg |-> min_area,
                             idx |-> idx, out |-> Pick(boxes, idx)]
    /\ UNCHANGED <<boxes, self, other, boxCall, filters, teamCall,
                   smoothVars, matchVars, setupVars>>

FilterByOverlap ==
    /\ \E iou_threshold \in Thresholds :
          LET idx == filter_boxes_by_overlap(boxes, iou_threshold)
          IN  filterCall' = [op |-> "overlap", arg |-> iou_threshold,
                             idx |-> idx, out |-> Pick(boxes, idx)]
    /\ UNCHANGED <<boxes, self, other, boxCall, filters, teamCall,
                   smoothVars, matchVars, setupVars>>

NextFilter == FilterByArea \/ FilterByOverlap

SpecFilter == InitFilter /\ [][NextFilter]_vars

----------------------------------------------------------------------------
(* inference/colors.py : the static catalogue of HSV colour ranges *)

HSVColor(name, lower_hsv, upper_hsv) ==
    [name |-> name, lower_hsv |-> lower_hsv, upper_hsv |-> upper_hsv]

white == HSVColor("white", <<0, 0, 184>>, <<179, 39, 255>>)

red == HSVColor("red", <<0, 100, 0>>, <<8, 255, 255>>)

blueish_red == HSVColor("blueish_red", <<170, 0, 0>>, <<178, 255, 255>>)

orange == HSVColor("orange", <<7, 178, 0>>, <<15, 255, 255>>)

yellow == HSVColor("yellow", <<23, 0, 0>>, <<29, 255, 255>>)

green == HSVColor("green", <<48, 50, 0>>, <<55, 255, 255>>)

sky_blue == HSVColor("sky_blue", <<95, 38, 0>>, <<111, 190, 255>>)

blue == HSVColor("blue", <<112, 80, 0>>, <<126, 255, 255>>)

black == HSVColor("black", <<0, 0, 0>>, <<179, 255, 49>>)

all == <<white, red, orange, yellow, green, sky_blue, blue, blueish_red, black>>

----------------------------------------------------------------------------
(* inference/filters.py : class TeamFilters *)

TeamFilter(name, colors) == [name |-> name, colors |-> colors]

\* index of the first filter called name, 0 if there is none
FirstNamed(fs, name) ==
    IF \E i \in 1..Len(fs) : fs[i].name = name
    THEN CHOOSE i \in 1..Len(fs) :
            /\ fs[i].name = name
            /\ \A j \in 1..(i - 1) : fs[j].name # name
    ELSE 0

add_team_filter(fs, name, colors) == Append(fs, TeamFilter(name, colors))

\* index of the last filter called name, 0 if there is none
LastNamed(fs, name) ==
    IF \E i \in 1..Len(fs) : fs[i].name = name
    THEN CHOOSE i \in 1..Len(fs) :
            /\ fs[i].name = name
            /\ \A j \in (i + 1)..Len(fs) : fs[j].name # name
    ELSE 0

\* remove_team_filter that removes the last filter called name
remove_team_filterLast(fs, name) ==
    LET i == LastNamed(fs, name)
    IN  IF i = 0
        THEN [filters |-> fs, ret |-> FALSE]
        ELSE [filters |-> SubSeq(fs, 1, i - 1) \o SubSeq(fs, i + 1, Len(fs)),
              ret |-> TRUE]

remove_team_filter(fs, name) ==
    LET i == FirstNamed(fs, name)
    IN  IF i = 0
        THEN [filters |-> fs, ret |-> FALSE]
        ELSE [filters |-> SubSeq(fs, 1, i - 1) \o SubSeq(fs, i + 1, Len(fs)),
              ret |-> TRUE]

update_team_colors(fs, name, colors) ==
    LET i == FirstNamed(fs, name)
    IN  IF i = 0
        THEN [filters |-> fs, ret |-> FALSE]
        ELSE [filters |-> [fs EXCEPT ![i].colors = colors], ret |-> TRUE]

clear_all_filters(fs) == <<>>

\* get_team_filter: the first filter called name, None if there is none
get_team_filter(fs, name) ==
    IF FirstNamed(fs, name) = 0 THEN <<>> ELSE <<fs[FirstNamed(fs, name)]>>

get_team_names(fs) == [i \in 1..Len(fs) |-> fs[i].name]

\* TeamFilters._COLOR_MAP: the colour names a configuration may use
COLOR_MAP_names == {"black", "blue", "green", "sky_blue"}

\* TeamFilters._COLOR_MAP[color_name]
COLOR_MAP(color_name) ==
    CASE color_name = "black" -> black
      [] color_name = "blue" -> blue
      [] color_name = "green" -> green
      [] color_name = "sky_blue" -> sky_blue

\* the loop over team_config['colors'] from name k on: the colours found so
\* far, or the error for an unknown colour name
RECURSIVE config_colors(_, _, _)
config_colors(names, k, colors) ==
    IF k > Len(names) THEN [raised |-> FALSE, colors |-> colors]
    ELSE IF names[k] \notin COLOR_MAP_names THEN [raised |-> TRUE]
    ELSE config_colors(names, k + 1, Append(colors, COLOR_MAP(names[k])))

\* the loop over config['teams'] from entry k on: fs is the registry built
\* so far; an entry is a record of an Optional name and an Optional list of
\* colour names
RECURSIVE config_filters(_, _, _)
config_filters(entries, k, fs) ==
    IF k > Len(entries) THEN [raised |-> FALSE, filters |-> fs]
    ELSE IF entries[k].name = <<>> \/ entries[k].colors = <<>>
    THEN [raised |-> TRUE]
    ELSE LET found == config_colors(entries[k].colors[1], 1, <<>>)
         IN  IF found.raised THEN [raised |-> TRUE]
             ELSE config_filters(entries, k + 1,
                      add_team_filter(fs, entries[k].name[1], found.colors))

\* TeamFilters.from_config_file on the content of an existing file
from_config_file(config) ==
    IF ~config.has_teams THEN [raised |-> TRUE]
    ELSE config_filters(config.teams, 1, <<>>)

\* to_hsv_classifier_format that lists the filters last-registered first
to_hsv_classifier_formatReversed(fs) ==
    [i \in 1..Len(fs) |->
        [name |-> fs[Len(fs) + 1 - i].name,
         colors |-> fs[Len(fs) + 1 - i].colors]]

\* to_hsv_classifier_format that passes only the first colour of a team
to_hsv_classifier_formatFirstColor(fs) ==
    [i \in 1..Len(fs) |->
        [name |-> fs[i].name, colors |-> SubSeq(fs[i].colors, 1, 1)]]

to_hsv_classifier_format(fs) ==
    [i \in 1..Len(fs) |-> [name |-> fs[i].name, colors |-> fs[i].colors]]

----------------------------------------------------------------------------
(* inference/hsv_classifier.py : the colour classifier (imported by        *)
(* inference/__init__.py; modelled after the design, section 4.3).         *)
(* A crop is a sequence of BGR pixels <<b, g, r>>, each channel 0..255.    *)

\* p / q rounded to the nearest integer, p >= 0, q > 0
RoundDiv(p, q) == (2 * p + q) \div (2 * q)

\* conversion of one 8-bit BGR pixel to HSV with h in 0..179, s, v in 0..255
bgr2hsv(px) ==
    LET b     == px[1]
        g     == px[2]
        r     == px[3]
        v     == Max(r, Max(g, b))
        delta == v - Min(r, Min(g, b))
        sat   == IF v = 0 THEN 0 ELSE RoundDiv(255 * delta, v)
        \* hue in degrees times delta
        hd    == IF v = r THEN 60 * (g - b)
                 ELSE IF v = g THEN 120 * delta + 60 * (b - r)
                 ELSE 240 * delta + 60 * (r - g)
        hpos  == IF hd < 0 THEN hd + 360 * delta ELSE hd
        hue   == IF delta = 0 THEN 0 ELSE RoundDiv(hpos, 2 * delta) % 180
    IN  <<hue, sat, v>>

\* the pixel lies inside the range: inclusive bounds, all three channels
InRange(hsv, color) ==
    \A ch \in 1..3 :
        color.lower_hsv[ch] <= hsv[ch] /\ hsv[ch] <= color.upper_hsv[ch]

\* fraction of the pixels of a non-empty crop that lie inside the range
Coverage(crop, color) ==
    Div(Cardinality({ k \in 1..Len(crop) : InRange(bgr2hsv(crop[k]), color) }),
        Len(crop))

\* match score of a team: the maximum coverage over its colour ranges
TeamScore(crop, colors) ==
    LET RECURSIVE Best(_, _)
        Best(i, best) ==
            IF i > Len(colors) THEN best
            ELSE LET c == Coverage(crop, colors[i])
                 IN  IF Leq(c, best) THEN Best(i + 1, best)
                     ELSE Best(i + 1, c)
    IN  Best(1, Zero)

Unclassified == "unclassified"

\* label of one crop: the first team of the highest score, if that score
\* exceeds min_coverage
predict(crop, teams, min_coverage) ==
    LET RECURSIVE Scan(_, _, _)
        Scan(i, label, best) ==
            IF i > Len(teams) THEN label
            ELSE LET sc == TeamScore(crop, teams[i].colors)
                 IN  IF Leq(sc, best) THEN Scan(i + 1, label, best)
                     ELSE Scan(i + 1, teams[i].name, sc)
    IN  IF Len(crop) = 0 THEN Unclassified
        ELSE Scan(1, Unclassified, min_coverage)

----------------------------------------------------------------------------
(* Specification of the registry and the classifier: the registry starts   *)
(* empty, is changed by its own methods, and crops are classified against  *)
(* its current content.                                                    *)

TeamNames == { "home", "away" }

\* colour lists that teams are registered with
ColorLists == { <<black>>, <<white, blue>>, <<red, blueish_red>> }

\* BGR pixels: all-zero, white, pure blue, pure red
Palette == << <<0, 0, 0>>, <<255, 255, 255>>, <<255, 0, 0>>, <<0, 0, 255>> >>

\* crops of at most MaxPixels pixels; the classifier only counts pixels, so
\* one pixel order per content is enough
Crops ==
    UNION { { [k \in 1..n |-> Palette[f[k]]] :
                f \in { g \in [1..n -> 1..Len(Palette)] :
                           \A k \in 1..(n - 1) : g[k] <= g[k + 1] } } :
            n \in 0..MaxPixels }

\* minimum-coverage thresholds, as fractions
Coverages == { <<0, 1>>, <<1, 2>> }

InitTeam ==
    /\ filters = <<>>
    /\ teamCall = NoCall
    /\ self = Box(0, 0, 0, 0)
    /\ other = Box(0, 0, 0, 0)
    /\ boxCall = NoCall
    /\ boxes = <<>>
    /\ filterCall = NoCall
    /\ IdleSmooth
    /\ IdleMatch
    /\ IdleSetup

AddTeamFilter ==
    /\ Len(filters) < MaxTeams
    /\ \E name \in TeamNames, colors \in ColorLists :
          /\ filters' = add_team_filter(filters, name, colors)
          /\ teamCall' = [op |-> "add", name |-> name, colors |-> colors,
                           before |-> filters]
    /\ UNCHANGED <<self, other, boxCall, boxes, filterCall,
                   smoothVars, matchVars, setupVars>>

RemoveTeamFilter ==
    /\ \E name \in TeamNames :
          LET r == remove_team_filter(filters, name)
          IN  /\ filters' = r.filters
              /\ teamCall' = [op |-> "remove", name |-> name, ret |-> r.ret,
                               before |-> filters]
    /\ UNCHANGED <<self, other, boxCall, boxes, filterCall,
                   smoothVars, matchVars, setupVars>>

UpdateTeamColors ==
    /\ \E name \in TeamNames, colors \in ColorLists :
          LET r == update_team_colors(filters, name, colors)
          IN  /\ filters' = r.filters
              /\ teamCall' = [op |-> "update", name |-> name,
                               colors |-> colors, ret |-> r.ret,
                               before |-> filters]
    /\ UNCHANGED <<self, other, boxCall, boxes, filterCall,
                   smoothVars, matchVars, setupVars>>

\* get_team_names() and len() on the registry
GetTeamNames ==
    /\ teamCall' = [op |-> "names", val |-> get_team_names(filters),
                    len |-> Len(filters)]
    /\ UNCHANGED <<filters, self, other, boxCall, boxes, filterCall,
                   smoothVars, matchVars, setupVars>>

ClearAllFilters ==
    /\ filters' = clear_all_filters(filters)
    /\ teamCall' = [op |-> "clear"]
    /\ UNCHANGED <<self, other, boxCall, boxes, filterCall,
                   smoothVars, matchVars, setupVars>>

Classify ==
    /\ \E crop \in Crops, min_coverage \in Coverages :
          teamCall' =
              [op |-> "predict", crop |-> crop, min_coverage |-> min_coverage,
               label |-> predict(crop, to_hsv_classifier_format(filters),
                                 min_coverage)]
    /\ UNCHANGED <<filters, self, other, boxCall, boxes, filterCall,
                   smoothVars, matchVars, setupVars>>

NextTeam ==
    \/ AddTeamFilter
    \/ RemoveTeamFilter
    \/ UpdateTeamColors
    \/ GetTeamNames
    \/ ClearAllFilters
    \/ Classify

SpecTeam == InitTeam /\ [][NextTeam]_vars

----------------------------------------------------------------------------
(* inference/inertia_classifier.py : the temporal smoothing wrapper         *)
(* (imported by inference/__init__.py; modelled after the design,          *)
(* section 4.4).  The wrapped classifier is any function from crops to     *)
(* labels: its raw label comes with each detection.  The history maps a    *)
(* track id to the labels kept for it, oldest first; a track id without    *)
(* an entry has the empty sequence.                                        *)

\* the track id of a detection that carries no track identity
NoTrack == 0

TrackIds == {1, 2}

Labels == {"home", "away"}

\* the last n elements of a sequence
LastN(n, w) == SubSeq(w, Max(1, Len(w) - n + 1), Len(w))

\* append that evicts the newest kept label once the window is full
append_evict_newest(w, raw) ==
    IF Len(w) < Window THEN Append(w, raw)
    ELSE Append(SubSeq(w, 1, Len(w) - 1), raw)

\* append the newest label, evict the oldest beyond the window size
append_bounded(w, raw) == LastN(Window, Append(w, raw))

count(w, label) == Cardinality({k \in 1..Len(w) : w[k] = label})

\* scan from position k towards the oldest label; best is the label kept
\* so far, replaced only by a label with strictly more occurrences
RECURSIVE majority_scan(_, _, _)
majority_scan(w, k, best) ==
    IF k = 0 THEN best
    ELSE majority_scan(w, k - 1,
             IF count(w, w[k]) > count(w, best) THEN w[k] ELSE best)

\* scan from position k towards the newest label
RECURSIVE majority_scan_forward(_, _, _)
majority_scan_forward(w, k, best) ==
    IF k > Len(w) THEN best
    ELSE majority_scan_forward(w, k + 1,
             IF count(w, w[k]) > count(w, best) THEN w[k] ELSE best)

\* majority with ties going to the label seen first
majority_oldest(w) == majority_scan_forward(w, 2, w[1])

\* the majority label of a non-empty window, ties broken by the label seen
\* most recently
majority(w) == majority_scan(w, Len(w) - 1, w[Len(w)])

\* recording that files a detection without a track identity under the
\* first track id
record_untracked(h, det) ==
    LET t == IF det.track = NoTrack THEN 1 ELSE det.track
    IN  [h EXCEPT ![t] = append_bounded(@, det.raw)]

\* the history after one detection: only a tracked detection is recorded
record(h, det) ==
    IF det.track = NoTrack THEN h
    ELSE [h EXCEPT ![det.track] = append_bounded(@, det.raw)]

\* the label emitted for one detection, given the history it was recorded in
emit(h, det) ==
    IF det.track = NoTrack THEN det.raw
    ELSE majority(h[det.track])

\* the history after the first k detections of a call
RECURSIVE recorded(_, _, _)
recorded(h, dets, k) ==
    IF k = 0 THEN h ELSE record(recorded(h, dets, k - 1), dets[k])

\* stale-track pass: a track id not reported for StaleAfter calls loses its
\* entry
evict_stale(h, seen) ==
    [t \in TrackIds |-> IF seen[t] >= StaleAfter THEN <<>> ELSE h[t]]

Detections == [track : TrackIds \cup {NoTrack}, raw : Labels]

\* the detections of one call: the tracker reports a track id at most once
DetectionLists ==
    {ds \in UNION {[1..n -> Detections] : n \in 0..MaxDets} :
        \A i, j \in 1..Len(ds) :
            (i # j /\ ds[i].track # NoTrack) => ds[i].track # ds[j].track}

Tracked(ds) == {k \in 1..Len(ds) : ds[k].track # NoTrack}

Reported(ds, t) == \E k \in 1..Len(ds) : ds[k].track = t

LogLength == Len(rawLog[1]) + Len(rawLog[2])

InitSmooth ==
    /\ history = [t \in TrackIds |-> <<>>]
    /\ last_seen = [t \in TrackIds |-> 0]
    /\ rawLog = [t \in TrackIds |-> <<>>]
    /\ smoothCall = NoCall
    /\ IdleBox /\ IdleFilter /\ IdleTeam /\ IdleMatch /\ IdleSetup

\* one call of the wrapper on the detections of a frame: every detection is
\* recorded and labelled in input order, then stale track ids are dropped
Smooth ==
    \E ds \in DetectionLists :
        /\ LogLength + Cardinality(Tracked(ds)) <= MaxSteps
        /\ LET seen == [t \in TrackIds |->
                           IF Reported(ds, t) THEN 0
                           ELSE Min(last_seen[t] + 1, StaleAfter)]
               done == recorded(history, ds, Len(ds))
           IN  /\ history' = evict_stale(done, seen)
               /\ last_seen' = seen
               /\ rawLog' = [t \in TrackIds |->
                                IF Reported(ds, t)
                                THEN Append(rawLog[t],
                                         ds[CHOOSE k \in 1..Len(ds) :
                                                ds[k].track = t].raw)
                                ELSE rawLog[t]]
               /\ smoothCall' =
                      [op |-> "predict", dets |-> ds, before |-> history,
                       after |-> [k \in 1..Len(ds) |->
                                     recorded(history, ds, k)],
                       labels |-> [k \in 1..Len(ds) |->
                                      emit(recorded(history, ds, k), ds[k])]]
        /\ UNCHANGED <<boxVars, filterVars, teamVars, matchVars, setupVars>>

NextSmooth == Smooth

SpecSmooth == InitSmooth /\ [][NextSmooth]_vars

----------------------------------------------------------------------------
(* soccer/team.py, soccer/ball.py, soccer/player.py, run_utils.py :        *)
(* Team, Ball, Player and get_main_ball.  An Optional value is a sequence  *)
(* of length at most one: None is the empty sequence.  A string is the     *)
(* sequence of its characters.  Pixel coordinates are integers; a          *)
(* constructor that raises returns ValueError.                             *)

None == <<>>

Some(v) == <<v>>

ValueError == [raised |-> TRUE]

\* characters that str.isupper() counts as uppercase, as lowercase, and the
\* characters without case
UpperChars == {"A", "B", "H", "M", "O", "W", "Y"}

LowerChars == {"b"}

UncasedChars == {"1"}

\* str.isupper(): at least one cased character and no lowercase character
isupper(s) ==
    /\ \E k \in 1..Len(s) : s[k] \in UpperChars \cup LowerChars
    /\ \A k \in 1..Len(s) : s[k] \notin LowerChars

\* Team.__init__ with id, board_color and text_color left at their defaults
Team(name, abbreviation, color) ==
    IF Len(abbreviation) # 3 \/ ~isupper(abbreviation) THEN ValueError
    ELSE [raised |-> FALSE, name |-> name, abbreviation |-> abbreviation,
          color |-> color, board_color |-> color, possession |-> 0]

\* a tracker detection: corner points <<x1, y1>>, <<x2, y2>> in the frame
\* and motion-compensated, and its data dictionary
Detection(pts, abs_pts, data) ==
    [points |-> pts, absolute_points |-> abs_pts, data |-> data]

\* Ball.__init__ that keeps the box next to the detection
BallKeepsBox(detection, box) ==
    IF detection # None
    THEN [raised |-> FALSE, detection |-> detection, box |-> box,
          color |-> None]
    ELSE IF box # None
    THEN [raised |-> FALSE, detection |-> None, box |-> box, color |-> None]
    ELSE ValueError

\* Ball.__init__
Ball(detection, box) ==
    IF detection # None
    THEN [raised |-> FALSE, detection |-> detection, box |-> None,
          color |-> None]
    ELSE IF box # None
    THEN [raised |-> FALSE, detection |-> None, box |-> box, color |-> None]
    ELSE ValueError

\* Ball.set_color: match is a record with the Team objects and the name of
\* the team in possession
set_color(b, match) ==
    IF match.team_possession = None THEN b
    ELSE LET color == match.teams[match.team_possession[1]].color
         IN  [b EXCEPT
                 !.color = Some(color),
                 !.detection =
                     IF @ = None THEN @
                     ELSE Some([@[1] EXCEPT !.data =
                              [c \in DOMAIN @ \cup {"color"} |->
                                  IF c = "color" THEN Some(color)
                                  ELSE @[c]]])]

\* Ball.get_center: the centre in halves of a pixel, <<x1 + x2, y1 + y2>>
\* standing for ((x1 + x2) / 2, (y1 + y2) / 2)
get_center(pts) ==
    <<pts[1][1] + pts[2][1], pts[1][2] + pts[2][2]>>

\* rounding of h / 2 that truncates
np_roundTruncate(h) == h \div 2

\* np.round(...).astype(int) of h / 2: half to even
np_round(h) ==
    LET f == h \div 2
    IN  IF h % 2 = 0 THEN f
        ELSE IF f % 2 = 0 THEN f ELSE f + 1

\* Ball.center
center(b) ==
    IF b.detection = None THEN None
    ELSE LET c == get_center(b.detection[1].points)
         IN  Some(<<np_round(c[1]), np_round(c[2])>>)

\* Ball.center_abs
center_abs(b) ==
    IF b.detection = None THEN None
    ELSE LET c == get_center(b.detection[1].absolute_points)
         IN  Some(<<np_round(c[1]), np_round(c[2])>>)

\* Player.__init__
Player(detection) ==
    [detection |-> detection,
     team |-> IF "team" \in DOMAIN detection.data
              THEN detection.data["team"] ELSE None]

\* Player.get_left_foot
get_left_foot(pts) == <<pts[1][1], pts[2][2]>>

\* Player.get_right_foot
get_right_foot(pts) == pts[2]

left_foot(p) == get_left_foot(p.detection.points)

right_foot(p) == get_right_foot(p.detection.points)

left_foot_abs(p) == get_left_foot(p.detection.absolute_points)

right_foot_abs(p) == get_right_foot(p.detection.absolute_points)

KeyError == [raised |-> TRUE]

\* Player.__eq__ on two Players: data["id"] of a detection without that key
\* raises KeyError
player_eq(p, q) ==
    IF "id" \notin DOMAIN p.detection.data
       \/ "id" \notin DOMAIN q.detection.data
    THEN KeyError
    ELSE [raised |-> FALSE,
          val |-> p.detection.data["id"] = q.detection.data["id"]]

\* Player.have_same_id on two Optional players
have_same_id(player1, player2) ==
    IF player1 = None \/ player2 = None THEN FALSE
    ELSE IF "id" \notin DOMAIN player1[1].detection.data
            \/ "id" \notin DOMAIN player2[1].detection.data
    THEN FALSE
    ELSE player_eq(player1[1], player2[1]).val

\* the square of np.linalg.norm(u - v): norms are only compared with each
\* other and with the distance bound, and squaring keeps the order
norm2(u, v) == (u[1] - v[1]) * (u[1] - v[1]) + (u[2] - v[2]) * (u[2] - v[2])

\* Player.distance_to_ball that measures from the left foot only
distance_to_ballLeftFoot(p, b) ==
    IF center(b) = None THEN None
    ELSE Some(norm2(center(b)[1], left_foot(p)))

\* Player.distance_to_ball, as the square of the distance
distance_to_ball(p, b) ==
    IF center(b) = None THEN None
    ELSE Some(Min(norm2(center(b)[1], left_foot(p)),
                  norm2(center(b)[1], right_foot(p))))

\* get_main_ball that leaves the ball without colour
get_main_ballNoColor(detections, match) ==
    IF Len(detections) > 0 THEN Ball(Some(detections[1]), None)
    ELSE Ball(None, Some(Box(0, 0, DefaultBallSize * Denom,
                             DefaultBallSize * Denom)))

\* run_utils.get_main_ball: match is an Optional match
get_main_ball(detections, match) ==
    LET b == IF Len(detections) > 0 THEN Ball(Some(detections[1]), None)
             ELSE Ball(None, Some(Box(0, 0, DefaultBallSize * Denom,
                                      DefaultBallSize * Denom)))
    IN  IF match # None THEN set_color(b, match[1]) ELSE b

----------------------------------------------------------------------------
(* soccer/match.py : the possession attributor (constructed by             *)
(* run_utils.load_teams_from_config; modelled after the design, section    *)
(* 4.5).  A match is a record of its Team objects by name, the name of the *)
(* team in possession and the distance bound.                              *)

\* the first player with a team, in input order, that no player with a team
\* before position k is strictly nearer than; 0 if none has a team
RECURSIVE closest_player(_, _, _, _)
closest_player(ps, b, k, best) ==
    IF k > Len(ps) THEN best
    ELSE closest_player(ps, b, k + 1,
             IF ps[k].team = None THEN best
             ELSE IF best = 0 THEN k
             ELSE IF distance_to_ball(ps[k], b)[1]
                         < distance_to_ball(ps[best], b)[1]
                  THEN k ELSE best)

\* Match.update: the match and the ball after one frame
update(match, ps, b) ==
    IF center(b) = None THEN [match |-> match, ball |-> b]
    ELSE LET i == closest_player(ps, b, 1, 0)
         IN  IF i = 0 THEN [match |-> match, ball |-> b]
             ELSE IF distance_to_ball(ps[i], b)[1]
                         > match.max_distance * match.max_distance
             THEN [match |-> match, ball |-> b]
             ELSE LET name == ps[i].team[1]
                      after == [match EXCEPT
                                   !.teams[name].possession = @ + 1,
                                   !.team_possession = Some(name)]
                  IN  [match |-> after, ball |-> set_color(b, after)]

\* the display colours of the two teams
TeamColor == [n \in TeamNames |->
                 IF n = "home" THEN <<255, 0, 0>> ELSE <<0, 0, 255>>]

TeamAbbreviation == [n \in TeamNames |->
                        IF n = "home" THEN <<"H", "O", "M">>
                        ELSE <<"A", "W", "Y">>]

\* the players a frame can hold: boxes on one line, with or without a team
PlayerDetections ==
    { Detection(<<<<x, 0>>, <<x + PlayerW, PlayerW>>>>,
                <<<<x, 0>>, <<x + PlayerW, PlayerW>>>>,
                [team |-> t]) :
          x \in {0, MaxPX},
          t \in {None} \cup {Some(n) : n \in TeamNames} }

PlayerLists ==
    UNION {[1..n -> {Player(d) : d \in PlayerDetections}] :
               n \in 0..MaxPlayers}

\* the ball detections of a frame: none, or one centred on the line of the
\* players' feet
BallDetections ==
    {<<>>} \cup
    { <<Detection(<<<<x, PlayerW - BallW>>, <<x + BallW, PlayerW + BallW>>>>,
                  <<<<x, PlayerW - BallW>>, <<x + BallW, PlayerW + BallW>>>>,
                  [color |-> None])>> : x \in 0..MaxBX }

TheMatch ==
    [teams |-> match_teams, team_possession |-> team_possession,
     max_distance |-> max_distance]

\* the players of a behaviour keep their places, the ball moves
InitMatch ==
    /\ players \in PlayerLists
    /\ max_distance \in 0..MaxDist
    /\ match_teams = [n \in TeamNames |->
                         Team(n, TeamAbbreviation[n], TeamColor[n])]
    /\ team_possession \in {Some(n) : n \in TeamNames}
    /\ ball = NoCall
    /\ run = <<>>
    /\ matchCall = NoCall
    /\ IdleBox /\ IdleFilter /\ IdleTeam /\ IdleSmooth /\ IdleSetup

\* one frame: the main ball is built from the frame's ball detections and
\* the match is updated with the players and that ball
Frame ==
    \E dets \in BallDetections :
        /\ Len(run) < MaxFrames
        /\ LET created == get_main_ball(dets, Some(TheMatch))
               r       == update(TheMatch, players, created)
               frame   == [op |-> "update", detections |-> dets,
                           before |-> TheMatch, created |-> created,
                           after |-> r.match, ball |-> r.ball]
           IN  /\ match_teams' = r.match.teams
               /\ team_possession' = r.match.team_possession
               /\ ball' = r.ball
               /\ matchCall' = frame
               /\ run' = Append(run, frame)
        /\ UNCHANGED <<players, max_distance, boxVars, filterVars, teamVars,
                       smoothVars, setupVars>>

NextMatch == Frame

SpecMatch == InitMatch /\ [][NextMatch]_vars

----------------------------------------------------------------------------
(* run_utils.py : load_teams_from_config.  A configuration is a record:   *)
(* has_teams says whether the 'teams' key is present, teams is its list of *)
(* entries, each with an Optional name and an Optional abbreviation, and   *)
(* match holds the Optional names home_team, away_team and                 *)
(* initial_possession.                                                     *)

\* str.lower() on the names of the model
lower(name) == IF name = "Referee" THEN "referee" ELSE name

\* the loop over config['teams'] from entry k on: teams is the list built so
\* far; an entry named referee is skipped before its keys are checked
RECURSIVE load_entries(_, _, _)
load_entries(entries, k, teams) ==
    IF k > Len(entries) THEN [raised |-> FALSE, teams |-> teams]
    ELSE LET e == entries[k]
         IN  IF e.name # None /\ lower(e.name[1]) = "referee"
             THEN load_entries(entries, k + 1, teams)
             ELSE IF e.name = None \/ e.abbreviation = None
             THEN ValueError
             ELSE LET team == Team(e.name[1], e.abbreviation[1], <<0, 0, 0>>)
                  IN  IF team.raised THEN ValueError
                      ELSE load_entries(entries, k + 1, Append(teams, team))

\* name in team_map
in_team_map(teams, name) == \E k \in 1..Len(teams) : teams[k].name = name

\* team_map[name]: the last team built with that name
team_map(teams, name) ==
    teams[CHOOSE k \in 1..Len(teams) :
              /\ teams[k].name = name
              /\ \A j \in (k + 1)..Len(teams) : teams[j].name # name]

\* load_teams_from_config: the teams, and the match with its home team, its
\* away team and the team in possession
load_teams_from_config(config) ==
    IF ~config.has_teams THEN ValueError
    ELSE LET loaded == load_entries(config.teams, 1, <<>>)
         IN  IF loaded.raised THEN ValueError
             ELSE
             LET teams == loaded.teams
                 home_team_name == config.match.home_team
                 away_team_name == config.match.away_team
                 initial_possession_name == config.match.initial_possession
                 home_team ==
                     IF home_team_name # None
                        /\ in_team_map(teams, home_team_name[1])
                     THEN Some(team_map(teams, home_team_name[1]))
                     ELSE IF Len(teams) > 0 THEN Some(teams[1])
                     ELSE None
                 away_team ==
                     IF away_team_name # None
                        /\ in_team_map(teams, away_team_name[1])
                     THEN Some(team_map(teams, away_team_name[1]))
                     ELSE IF Len(teams) > 1 THEN Some(teams[2])
                     ELSE None
             IN  IF home_team = None \/ away_team = None THEN ValueError
                 ELSE [raised |-> FALSE, teams |-> teams,
                       home |-> home_team[1], away |-> away_team[1],
                       team_possession |->
                           IF initial_possession_name # None
                              /\ in_team_map(teams,
                                             initial_possession_name[1])
                           THEN team_map(teams, initial_possession_name[1])
                           ELSE away_team[1]]

----------------------------------------------------------------------------
(* inference/base_classifier.py : BaseClassifier.predict_from_detections  *)
(* A classifier is a function from crops to labels: predict returns one   *)
(* label per crop, in the order of the crops.                             *)

TypeError == [raised |-> TRUE]

\* a list element that is not a norfair Detection
NotADetection == [value |-> "box"]

\* isinstance(detection, Detection)
isDetection(d) == "points" \in DOMAIN d

\* the Box built from the two corner points of a detection
detection_box(d) ==
    LET x1 == d.points[1][1]
        y1 == d.points[1][2]
        x2 == d.points[2][1]
        y2 == d.points[2][2]
    IN  Box(Min(x1, x2) * Denom, Min(y1, y2) * Denom,
            Abs(x2 - x1) * Denom, Abs(y2 - y1) * Denom)

\* box.img : the crop of the image at the box
box_image(d) == cut(detection_box(d))

\* detection.data["classification"] = name
set_classification(d, name) ==
    [d EXCEPT !.data =
        [k \in DOMAIN d.data \cup {"classification"} |->
            IF k = "classification" THEN name ELSE d.data[k]]]

\* the crops of the detections of a list, in order
box_images(detections) ==
    [i \in 1..Len(detections) |-> box_image(detections[i])]

\* self.predict(box_images)
class_names(classifier, crops) ==
    [i \in 1..Len(crops) |-> classifier[crops[i]]]

\* zip(detections, class_name) with the labels taken in reverse order
zip_classifyReversed(detections, names) ==
    [i \in 1..Len(detections) |->
        IF i <= Len(names)
        THEN set_classification(detections[i], names[Len(names) + 1 - i])
        ELSE detections[i]]

\* for detection, name in zip(detections, class_name): the loop stops at
\* the shorter of the two lists
zip_classify(detections, names) ==
    [i \in 1..Len(detections) |->
        IF i <= Len(names)
        THEN set_classification(detections[i], names[i])
        ELSE detections[i]]

\* the Detections of a list that precede its first element of another type
LeadingDetections(detections) ==
    LET bad == { i \in 1..Len(detections) : ~isDetection(detections[i]) }
        n == IF bad = {} THEN Len(detections)
             ELSE (CHOOSE i \in bad : \A j \in bad : i <= j) - 1
    IN  SubSeq(detections, 1, n)

\* predict_from_detections that classifies as it goes and rejects the list
\* only on reaching an element that is not a Detection
predict_from_detectionsLate(detections, classifier) ==
    LET lead == LeadingDetections(detections)
        crops == box_images(lead)
        done == zip_classify(lead, class_names(classifier, crops))
    IN  IF Len(lead) < Len(detections)
        THEN [raised |-> TRUE, calls |-> <<crops>>,
              detections |-> done \o SubSeq(detections, Len(lead) + 1,
                                            Len(detections))]
        ELSE [raised |-> FALSE, calls |-> <<crops>>, detections |-> done]

\* the result holds whether TypeError was raised, the lists of crops the
\* classifier was invoked with, and the detections as the call leaves them
\* (the list it returns when it returns)
predict_from_detections(detections, classifier) ==
    IF \E i \in 1..Len(detections) : ~isDetection(detections[i])
    THEN [raised |-> TypeError.raised, calls |-> <<>>,
          detections |-> detections]
    ELSE LET crops == box_images(detections)
         IN  [raised |-> FALSE, calls |-> <<crops>>,
              detections |->
                  zip_classify(detections, class_names(classifier, crops))]

----------------------------------------------------------------------------
(* inference/base_detector.py : generate_predictions_mask, and             *)
(* run_utils.py : create_mask.  A mask is its shape and the rectangles of  *)
(* it that were set to 0; every other pixel is 1.  A rectangle holds the   *)
(* rows r with rows[1] <= r < rows[2] and the columns likewise.  A         *)
(* DataFrame is a record holding its rows, whose coordinates are in halves *)
(* of a pixel.                                                             *)

\* np.ones(img.shape[:2])
ones(shape) == [shape |-> shape, zeros |-> {}]

\* mask[r_lo : r_hi, c_lo : c_hi] = 0 with the slice rules of Python: a
\* negative index counts from the end, and an index beyond the end is the end
set_zero(m, r_lo, r_hi, c_lo, c_hi) ==
    LET r0 == SliceStart(r_lo, m.shape[1])
        r1 == SliceStart(r_hi, m.shape[1])
        c0 == SliceStart(c_lo, m.shape[2])
        c1 == SliceStart(c_hi, m.shape[2])
    IN  IF r0 < r1 /\ c0 < c1
        THEN [m EXCEPT !.zeros = @ \cup {[rows |-> <<r0, r1>>,
                                          cols |-> <<c0, c1>>]}]
        ELSE m

\* mask[r, c]
value(m, r, c) ==
    IF \E z \in m.zeros : /\ z.rows[1] <= r /\ r < z.rows[2]
                          /\ z.cols[1] <= c /\ c < z.cols[2]
    THEN 0 ELSE 1

\* type(predictions) == pd.DataFrame
isDataFrame(predictions) == "rows" \in DOMAIN predictions

\* the loop over predictions.iterrows() from row k on
RECURSIVE mask_rows(_, _, _, _)
mask_rows(m, rows, k, margin) ==
    IF k > Len(rows) THEN m
    ELSE LET xmin == np_round(rows[k].xmin)
             ymin == np_round(rows[k].ymin)
             xmax == np_round(rows[k].xmax)
             ymax == np_round(rows[k].ymax)
         IN  mask_rows(set_zero(m, ymin - margin, ymax + margin,
                                   xmin - margin, xmax + margin),
                       rows, k + 1, margin)

generate_predictions_mask(predictions, shape, margin) ==
    IF ~isDataFrame(predictions) THEN TypeError
    ELSE [raised |-> FALSE,
          mask |-> mask_rows(ones(shape), predictions.rows, 1, margin)]

\* Converter.Detections_to_DataFrame: one row per detection, xmin and ymin
\* from the first corner point, xmax and ymax from the second
Detections_to_DataFrame(detections) ==
    [rows |-> [i \in 1..Len(detections) |->
                  [xmin |-> 2 * detections[i].points[1][1],
                   ymin |-> 2 * detections[i].points[1][2],
                   xmax |-> 2 * detections[i].points[2][1],
                   ymax |-> 2 * detections[i].points[2][2]]]]

\* mask[69:200, 160:510] = 0
remove_goal_counter(m) ==
    set_zero(m, GoalRowStart, GoalRowStop, GoalColStart, GoalColStop)

\* the mask of the detections with a margin, all ones when there are none
detections_mask(shape, detections, margin) ==
    IF detections = <<>> THEN ones(shape)
    ELSE generate_predictions_mask(Detections_to_DataFrame(detections),
                                   shape, margin).mask

create_mask(shape, detections) ==
    remove_goal_counter(detections_mask(shape, detections, MaskMargin))

----------------------------------------------------------------------------
(* run_utils.py : update_motion_estimator.  The motion estimator is the    *)
(* list of what its update does on its first, second, third and fourth     *)
(* call of the frame: it returns a transformation or raises an error with  *)
(* a message.  A message is a sequence of words.                           *)

\* str.lower() of a word
lower_word(w) ==
    CASE w = "Sparse" -> "sparse"
      [] w = "Flow" -> "flow"
      [] w = "findHomography" -> "findhomography"
      [] w = "'NoneType'" -> "'nonetype'"
      [] OTHER -> w

\* str.lower() of a message
lower_message(msg) == [i \in 1..Len(msg) |-> lower_word(msg[i])]

\* phrase in msg
contains(msg, phrase) ==
    \E k \in 0..(Len(msg) - Len(phrase)) :
        SubSeq(msg, k + 1, k + Len(phrase)) = phrase

\* the test of the error message of the first attempt
is_motion_failure(error_msg) ==
    \/ contains(error_msg, <<"findHomography">>)
    \/ contains(error_msg,
                <<"at", "least", "4", "corresponding", "point", "sets">>)
    \/ contains(error_msg,
                <<"'NoneType'", "object", "is", "not", "subscriptable">>)
    \/ contains(lower_message(error_msg), <<"sparse", "flow">>)

\* the masks of the four attempts, in the order they are tried
attempt_masks(shape, detections) ==
    << create_mask(shape, detections),
       remove_goal_counter(detections_mask(shape, detections,
                                           FallbackMargin)),
       remove_goal_counter(ones(shape)),
       ones(shape) >>

\* the fallbacks from attempt k on, after the calls made so far
RECURSIVE fallback(_, _, _, _)
fallback(motion_estimator, masks, k, calls) ==
    IF k > Len(masks)
    THEN [raised |-> FALSE, ret |-> None, calls |-> calls]
    ELSE IF motion_estimator[k].ok
    THEN [raised |-> FALSE,
          ret |-> Some(motion_estimator[k].transformation),
          calls |-> Append(calls, masks[k])]
    ELSE fallback(motion_estimator, masks, k + 1, Append(calls, masks[k]))

\* update_motion_estimator that gives up after the goal-counter-only mask
update_motion_estimatorThree(motion_estimator, detections, shape) ==
    LET masks == attempt_masks(shape, detections)
    IN  IF motion_estimator[1].ok
        THEN [raised |-> FALSE,
              ret |-> Some(motion_estimator[1].transformation),
              calls |-> <<masks[1]>>]
        ELSE IF is_motion_failure(motion_estimator[1].message)
        THEN fallback(motion_estimator, SubSeq(masks, 1, 3), 2, <<masks[1]>>)
        ELSE [raised |-> TRUE, message |-> motion_estimator[1].message,
              calls |-> <<masks[1]>>]

\* the result holds the masks the estimator's update was called with, in
\* order, and either the value returned or the message of the error raised
update_motion_estimator(motion_estimator, detections, shape) ==
    LET masks == attempt_masks(shape, detections)
    IN  IF motion_estimator[1].ok
        THEN [raised |-> FALSE,
              ret |-> Some(motion_estimator[1].transformation),
              calls |-> <<masks[1]>>]
        ELSE IF is_motion_failure(motion_estimator[1].message)
        THEN fallback(motion_estimator, masks, 2, <<masks[1]>>)
        ELSE [raised |-> TRUE, message |-> motion_estimator[1].message,
              calls |-> <<masks[1]>>]

----------------------------------------------------------------------------
(* Specification of construction and loading: one argument list is drawn,  *)
(* and the one action it is for is the call made with it.                  *)

Chars == {"A", "b", "1"}

Abbreviations == UNION {[1..n -> Chars] : n \in 0..MaxAbbrev}

TeamInputs == [kind : {"Team"}, abbreviation : Abbreviations]

\* ball detections whose motion-compensated points differ from the points
\* in the frame
SetupDetections ==
    { Detection(<<<<x, 0>>, <<x + BallW, BallW>>>>,
                <<<<x + 1, 1>>, <<x + 1 + BallW, 1 + BallW>>>>,
                [color |-> None]) : x \in 0..MaxBX }

BallInputs ==
    [kind : {"Ball"},
     detection : {None} \cup {Some(d) : d \in SetupDetections},
     box : {None, Some(Box(0, 0, DefaultBallSize * Denom,
                           DefaultBallSize * Denom))}]

ConfigNames == {"home", "away", "referee"}

ConfigEntries ==
    [name : {None} \cup {Some(n) : n \in ConfigNames},
     abbreviation : {None, Some(TeamAbbreviation["home"])}]

MatchNames == {None, Some("home"), Some("away"), Some("other")}

Configs ==
    [has_teams : BOOLEAN,
     teams : UNION {[1..n -> ConfigEntries] : n \in 0..MaxEntries},
     match : [home_team : MatchNames, away_team : MatchNames,
              initial_possession : {None, Some("home")}]]

ConfigInputs ==
    { [kind |-> "config", config |-> c] :
          c \in {d \in Configs : d.has_teams \/ d.teams = <<>>} }

\* colour names: in _COLOR_MAP, in the catalogue only, in neither
ColorNames == {"black", "white", "purple"}

FilterEntries ==
    [name : {<<>>, <<"home">>},
     colors : {<<>>} \cup
              {<<cs>> : cs \in UNION {[1..n -> ColorNames] :
                                         n \in 0..MaxColors}}]

FilterConfigInputs ==
    { [kind |-> "filters", config |-> [has_teams |-> h, teams |-> es]] :
          h \in BOOLEAN,
          es \in UNION {[1..n -> FilterEntries] :
                            n \in 0..MaxFilterEntries} }

\* the two corner points of a player's box starting at x, in the four
\* orders a pair of opposite corners can be stored in
CornerPairs(x) ==
    LET x1 == x
        y1 == 0
        x2 == x + PlayerW
        y2 == PlayerW
    IN  { <<<<x1, y1>>, <<x2, y2>>>>, <<<<x2, y2>>, <<x1, y1>>>>,
          <<<<x2, y1>>, <<x1, y2>>>>, <<<<x1, y2>>, <<x2, y1>>>> }

\* the same corner points moved by the camera motion
Moved(pts) ==
    <<<<pts[1][1] + 1, pts[1][2] + 1>>, <<pts[2][1] + 1, pts[2][2] + 1>>>>

SetupTeams == {None, Some("home")}

\* players whose detection carries a track id, and players whose detection
\* carries none
SetupPlayers ==
    { Player(Detection(pts, Moved(pts), [team |-> t, id |-> n])) :
          pts \in CornerPairs(0) \cup CornerPairs(MaxPX),
          t \in SetupTeams, n \in TrackIds }
    \cup
    { Player(Detection(pts, Moved(pts), [team |-> t])) :
          pts \in CornerPairs(0), t \in SetupTeams }

PlayerInputs ==
    [kind : {"players"},
     player1 : {None} \cup {Some(p) : p \in SetupPlayers},
     player2 : {None} \cup {Some(p) : p \in SetupPlayers}]

\* detections to classify: both storage orders of the corners, with and
\* without an earlier classification
ClassifyDetections ==
    { Detection(pts, pts, data) :
          pts \in { <<<<x, 0>>, <<x + PlayerW, PlayerW>>>> : x \in 0..MaxPX }
                  \cup
                  { <<<<x + PlayerW, PlayerW>>, <<x, 0>>>> : x \in 0..MaxPX },
          data \in { [label |-> "player"],
                     [label |-> "player", classification |-> "stale"] } }

RECURSIVE ListsOf(_, _)
ListsOf(S, n) ==
    IF n = 0 THEN {<<>>}
    ELSE LET shorter == ListsOf(S, n - 1)
         IN  shorter \cup { Append(l, e) : l \in shorter, e \in S }

ClassifyLists == ListsOf(ClassifyDetections \cup {NotADetection}, MaxBatch)

\* the crops a classifier can be asked about
ClassifyCrops == { box_image(d) : d \in ClassifyDetections }

Classifiers == [ClassifyCrops -> Labels]

ClassifyInputs ==
    [kind : {"classify"}, detections : ClassifyLists,
     classifier : Classifiers]

\* rows of a DataFrame of predictions: boxes of one pixel, some with a left
\* edge half a pixel further right
MaskBoxes ==
    { [xmin |-> 2 * x + e, ymin |-> 2 * y,
       xmax |-> 2 * (x + 1), ymax |-> 2 * (y + 1)] :
          x \in 0..MaxMaskX, y \in 0..MaxMaskX, e \in {0, 1} }

\* a value that is not a DataFrame
NotADataFrame == [value |-> "list"]

MaskInputs ==
    [kind : {"mask"},
     predictions : { [rows |-> l] : l \in ListsOf(MaskBoxes, MaxMaskBoxes) }
                   \cup {NotADataFrame},
     shape : {<<MaskSize, MaskSize>>},
     margin : 0..MaxMargin]

\* frames: a small one, and one that reaches into the goal counter region
FrameShapes ==
    { <<MaskSize, MaskSize>>, <<GoalRowStart + 2, GoalColStart + 2>> }

\* detections to hide: one near the top left corner of the frame and one
\* further than the margin from every edge of the larger frame
HiddenDetections ==
    { Detection(pts, pts, [label |-> "player"]) :
          pts \in { <<<<x, x>>, <<x + 1, x + 1>>>> :
                        x \in {1, MaskMargin + 1} } }

CreateMaskInputs ==
    [kind : {"create_mask"},
     shape : FrameShapes,
     detections : ListsOf(HiddenDetections, MaxHidden + 1)]

\* error messages of the estimator: four that name a motion-estimation
\* failure and three that do not
ErrorMessages ==
    { <<"error", "in", "findHomography">>,
      <<"need", "at", "least", "4", "corresponding", "point", "sets">>,
      <<"'NoneType'", "object", "is", "not", "subscriptable">>,
      <<"Sparse", "Flow", "failed">>,
      <<"error", "in", "findhomography">>,
      <<"sparse", "matrix">>,
      <<"out", "of", "memory">> }

Transformations == {"T1", "T2"}

\* what a call of the estimator's update does
Outcomes ==
    [ok : {TRUE}, transformation : Transformations]
    \cup [ok : {FALSE}, message : ErrorMessages]

\* what a fallback call does: the message of its error is never read
FallbackOutcomes ==
    [ok : {TRUE}, transformation : Transformations]
    \cup [ok : {FALSE},
          message : {<<"error", "in", "findHomography">>,
                     <<"out", "of", "memory">>}]

MotionEstimators ==
    { <<a, b, c, d>> : a \in Outcomes, b \in FallbackOutcomes,
                       c \in FallbackOutcomes, d \in FallbackOutcomes }

EstimatorInputs ==
    [kind : {"estimate"},
     motion_estimator : MotionEstimators,
     detections : ListsOf(HiddenDetections, MaxHidden),
     shape : FrameShapes]

InitSetup ==
    /\ \/ setupIn \in TeamInputs
       \/ setupIn \in PlayerInputs
       \/ setupIn \in BallInputs
       \/ setupIn \in ClassifyInputs
       \/ setupIn \in MaskInputs
       \/ setupIn \in CreateMaskInputs
       \/ setupIn \in EstimatorInputs
       \/ setupIn \in ConfigInputs
       \/ setupIn \in {i \in FilterConfigInputs :
                            i.config.has_teams \/ i.config.teams = <<>>}
    /\ setupCall = NoCall
    /\ IdleBox /\ IdleFilter /\ IdleTeam /\ IdleSmooth /\ IdleMatch

\* Team(name="home", abbreviation=...)
NewTeam ==
    /\ setupIn.kind = "Team"
    /\ setupCall = NoCall
    /\ setupCall' = [op |-> "Team",
                     result |-> Team("home", setupIn.abbreviation,
                                     TeamColor["home"])]
    /\ UNCHANGED <<setupIn, boxVars, filterVars, teamVars, smoothVars,
                   matchVars>>

\* Ball(detection=..., box=...) and, if it was constructed, its center and
\* center_abs
NewBall ==
    /\ setupIn.kind = "Ball"
    /\ setupCall = NoCall
    /\ LET b == Ball(setupIn.detection, setupIn.box)
       IN  setupCall' =
               IF b.raised THEN [op |-> "Ball", result |-> b]
               ELSE [op |-> "Ball", result |-> b, center |-> center(b),
                     center_abs |-> center_abs(b)]
    /\ UNCHANGED <<setupIn, boxVars, filterVars, teamVars, smoothVars,
                   matchVars>>

\* load_teams_from_config on the configuration
LoadTeams ==
    /\ setupIn.kind = "config"
    /\ setupCall = NoCall
    /\ setupCall' = [op |-> "load",
                     result |-> load_teams_from_config(setupIn.config)]
    /\ UNCHANGED <<setupIn, boxVars, filterVars, teamVars, smoothVars,
                   matchVars>>

\* the four foot properties of player1
PlayerFeet ==
    /\ setupIn.kind = "players"
    /\ setupIn.player1 # None
    /\ setupCall = NoCall
    /\ LET p == setupIn.player1[1]
       IN  setupCall' = [op |-> "feet",
                         left_foot |-> left_foot(p),
                         right_foot |-> right_foot(p),
                         left_foot_abs |-> left_foot_abs(p),
                         right_foot_abs |-> right_foot_abs(p)]
    /\ UNCHANGED <<setupIn, boxVars, filterVars, teamVars, smoothVars,
                   matchVars>>

\* Player.have_same_id(player1, player2) and, when both players are there,
\* player1 == player2
ComparePlayers ==
    /\ setupIn.kind = "players"
    /\ setupCall = NoCall
    /\ setupCall' =
           IF setupIn.player1 # None /\ setupIn.player2 # None
           THEN [op |-> "compare",
                 have_same_id |-> have_same_id(setupIn.player1,
                                               setupIn.player2),
                 eq |-> player_eq(setupIn.player1[1], setupIn.player2[1])]
           ELSE [op |-> "compare",
                 have_same_id |-> have_same_id(setupIn.player1,
                                               setupIn.player2)]
    /\ UNCHANGED <<setupIn, boxVars, filterVars, teamVars, smoothVars,
                   matchVars>>

\* TeamFilters.from_config_file on the configuration
LoadFilters ==
    /\ setupIn.kind = "filters"
    /\ setupCall = NoCall
    /\ setupCall' = [op |-> "from_config_file",
                     result |-> from_config_file(setupIn.config)]
    /\ UNCHANGED <<setupIn, boxVars, filterVars, teamVars, smoothVars,
                   matchVars>>

PredictFromDetections ==
    /\ setupIn.kind = "classify"
    /\ setupCall = NoCall
    /\ LET r == predict_from_detections(setupIn.detections,
                                        setupIn.classifier)
       IN  setupCall' = [op |-> "predict_from_detections",
                         raised |-> r.raised,
                         calls |-> r.calls,
                         detections |-> r.detections]
    /\ UNCHANGED <<setupIn, boxVars, filterVars, teamVars, smoothVars,
                   matchVars>>

GeneratePredictionsMask ==
    /\ setupIn.kind = "mask"
    /\ setupCall = NoCall
    /\ LET r == generate_predictions_mask(setupIn.predictions,
                                          setupIn.shape, setupIn.margin)
       IN  setupCall' = IF r.raised
                        THEN [op |-> "generate_predictions_mask",
                              raised |-> TRUE]
                        ELSE [op |-> "generate_predictions_mask",
                              raised |-> FALSE, mask |-> r.mask]
    /\ UNCHANGED <<setupIn, boxVars, filterVars, teamVars, smoothVars,
                   matchVars>>

CreateMask ==
    /\ setupIn.kind = "create_mask"
    /\ setupCall = NoCall
    /\ setupCall' = [op |-> "create_mask",
                     mask |-> create_mask(setupIn.shape,
                                          setupIn.detections)]
    /\ UNCHANGED <<setupIn, boxVars, filterVars, teamVars, smoothVars,
                   matchVars>>

UpdateMotionEstimator ==
    /\ setupIn.kind = "estimate"
    /\ setupCall = NoCall
    /\ LET r == update_motion_estimator(setupIn.motion_estimator,
                                        setupIn.detections, setupIn.shape)
       IN  setupCall' = IF r.raised
                        THEN [op |-> "update_motion_estimator",
                              raised |-> TRUE, message |-> r.message,
                              calls |-> r.calls]
                        ELSE [op |-> "update_motion_estimator",
                              raised |-> FALSE, ret |-> r.ret,
                              calls |-> r.calls]
    /\ UNCHANGED <<setupIn, boxVars, filterVars, teamVars, smoothVars,
                   matchVars>>

NextSetup ==
    \/ NewTeam
    \/ NewBall
    \/ LoadTeams
    \/ LoadFilters
    \/ PlayerFeet
    \/ ComparePlayers
    \/ PredictFromDetections
    \/ GeneratePredictionsMask
    \/ CreateMask
    \/ UpdateMotionEstimator

SpecSetup == InitSetup /\ [][NextSetup]_vars

----------------------------------------------------------------------------
(* Properties of the Box operations (checked under SpecBox) *)

\* the intersection rectangle of the two boxes, as the design states it
InterW(a, b) == Min(a.x + a.width, b.x + b.width) - Max(a.x, b.x)

InterH(a, b) == Min(a.y + a.height, b.y + b.height) - Max(a.y, b.y)

\* round(v) of the design: nearest integer to n / Denom, halves to even
round(n) ==
    LET f == n \div Denom
        r == n - f * Denom
    IN  IF 2 * r < Denom THEN f
        ELSE IF 2 * r > Denom THEN f + 1
        ELSE IF f % 2 = 0 THEN f ELSE f + 1

NonNegative(b) == b.width >= 0 /\ b.height >= 0

Degenerate(b) == b.width <= 0 \/ b.height <= 0

\* C4: a.iou(b) is 0 when the intersection rectangle has width <= 0 or
\* height <= 0, is 0 when the union area is 0, and otherwise equals
\* intersection / (area_a + area_b - intersection), which lies in (0, 1]
\* when both boxes have non-negative width and height.
IouFormula ==
    boxCall.op = "iou" =>
        LET iw == InterW(self, other)
            ih == InterH(self, other)
            ia == iw * ih
            ua == self.width * self.height + other.width * other.height - ia
            v  == boxCall.val
        IN  /\ (iw <= 0 \/ ih <= 0) => v = Zero
            /\ ua = 0 => v = Zero
            /\ (iw > 0 /\ ih > 0 /\ ua # 0) =>
                  /\ v[2] > 0
                  /\ v[1] * ua = ia * v[2]
                  /\ (NonNegative(self) /\ NonNegative(other)) =>
                        (0 < v[1] /\ v[1] <= v[2])

\* C4 witness: a partial overlap, whose IoU is strictly between 0 and 1
IouPartialOverlap ==
    /\ boxCall.op = "iou"
    /\ InterW(self, other) > 0
    /\ InterH(self, other) > 0
    /\ 0 < boxCall.val[1]
    /\ boxCall.val[1] < boxCall.val[2]

\* C5: iou is symmetric: a.iou(b) = b.iou(a) for all boxes, degenerate
\* ones included.
IouSymmetric ==
    boxCall.op = "iou" => boxCall.val = iou(other, self)

\* C5 witness: two different overlapping boxes
IouOfDistinctBoxes ==
    /\ boxCall.op = "iou"
    /\ self # other
    /\ self.x < other.x
    /\ boxCall.val # Zero

\* C6: a.iou(a) = 1.0 for every box a whose area (width * height) is
\* positive.
IouSelfIsOne ==
    (boxCall.op = "iou_self" /\ self.width * self.height > 0) =>
        boxCall.val = <<1, 1>>

\* C7: a box with width <= 0 or height <= 0 has area 0 (never negative)
\* and its iou with any other box is 0.
DegenerateIsZero ==
    Degenerate(self) =>
        /\ boxCall.op = "area" => boxCall.val = 0
        /\ boxCall.op = "iou" => boxCall.val = Zero

\* C8: points = [(round(x), round(y)), (round(x + width), round(y + height))],
\* every corner coordinate rounded to the nearest integer, not truncated.
PointsRounded ==
    boxCall.op = "points" =>
        boxCall.val = << <<round(self.x), round(self.y)>>,
                         <<round(self.x + self.width),
                           round(self.y + self.height)>> >>

\* C9: for every box with width >= 0 and height >= 0 (any x and y, negative
\* and fractional ones included) points[1] >= points[0] in both components,
\* so cut() never slices with a reversed range.
PointsOrdered ==
    NonNegative(self) =>
        /\ boxCall.op = "points" =>
              /\ boxCall.val[2][1] >= boxCall.val[1][1]
              /\ boxCall.val[2][2] >= boxCall.val[1][2]
        /\ boxCall.op = "cut" =>
              /\ boxCall.val.rows[1] <= boxCall.val.rows[2]
              /\ boxCall.val.cols[1] <= boxCall.val.cols[2]

\* C9 witness: cut() of a box at a negative fractional x with positive size
CutAtNegativeFraction ==
    /\ boxCall.op = "cut"
    /\ self.x < 0
    /\ self.x % Denom # 0
    /\ self.width > 0
    /\ self.height > 0
    /\ boxCall.val.cols[1] < boxCall.val.cols[2]

----------------------------------------------------------------------------
(* Properties of the filters (checked under SpecFilter) *)

\* the area and the overlap of input boxes, as the design states them
BoxArea(b) == b.width * b.height

\* IoU(a, b) > t, for t = <<n, d>>
IoUExceeds(a, b, t) ==
    LET iw == InterW(a, b)
        ih == InterH(a, b)
        ia == iw * ih
        ua == BoxArea(a) + BoxArea(b) - ia
    IN  iw > 0 /\ ih > 0 /\ ua > 0 /\ ia * t[2] > t[1] * ua

\* position i is visited before position j: larger area first, equal areas
\* in input order
VisitedBefore(i, j) ==
    \/ BoxArea(boxes[i]) > BoxArea(boxes[j])
    \/ BoxArea(boxes[i]) = BoxArea(boxes[j]) /\ i < j

\* the input positions that the last call returned
Returned == { filterCall.idx[k] : k \in 1..Len(filterCall.idx) }

\* C1: filter_by_overlap returns exactly the result of the greedy pass:
\* boxes are visited in descending area order (equal areas in input order),
\* the first is always kept and a later box is kept iff its IoU with every
\* already-kept box is <= t; so the output consists of input boxes, each at
\* most once, every pair of which has IoU <= t, the empty list gives the
\* empty list and a single box is returned unchanged for every threshold.
OverlapIsGreedyPass ==
    filterCall.op = "overlap" =>
        LET idx == filterCall.idx
            t   == filterCall.arg
            n   == Len(boxes)
        IN  /\ \A k \in 1..Len(idx) : idx[k] \in 1..n
            /\ \A k, l \in 1..Len(idx) : k < l => VisitedBefore(idx[k], idx[l])
            /\ filterCall.out = [k \in 1..Len(idx) |-> boxes[idx[k]]]
            /\ \A i \in 1..n :
                  i \in Returned <=>
                      \A j \in Returned :
                          VisitedBefore(j, i) =>
                              ~IoUExceeds(boxes[j], boxes[i], t)
            /\ \A i, j \in Returned :
                  i # j => ~IoUExceeds(boxes[i], boxes[j], t)
            /\ n = 0 => filterCall.out = <<>>
            /\ n = 1 => filterCall.out = boxes

\* C1 witness: of three boxes one is suppressed, and the output starts with
\* a box that is not the first of the input
OverlapSuppressesOne ==
    /\ filterCall.op = "overlap"
    /\ Len(boxes) = 3
    /\ Len(filterCall.idx) = 2
    /\ filterCall.idx[1] # 1
    /\ \E i, j \in 1..3 : i # j /\ BoxArea(boxes[i]) = BoxArea(boxes[j])

\* C2 (as stated): of two input boxes whose IoU is > t at most one is in the
\* output, and if one is, it is the one with the larger area (for equal
\* areas, the one that comes first in the input).
SurvivorIsLarger ==
    filterCall.op = "overlap" =>
        \A i, j \in 1..Len(boxes) :
            (VisitedBefore(i, j) /\
             IoUExceeds(boxes[i], boxes[j], filterCall.arg)) =>
                j \notin Returned

\* C2 (amended): of two input boxes whose IoU is > t at most one is in the
\* output; the smaller one (for equal areas, the later one) is in the output
\* only if the larger one was itself suppressed by a kept box that was
\* visited before it.
SurvivorIsLargerUnlessSuppressed ==
    filterCall.op = "overlap" =>
        \A i, j \in 1..Len(boxes) :
            (VisitedBefore(i, j) /\
             IoUExceeds(boxes[i], boxes[j], filterCall.arg)) =>
                /\ ~(i \in Returned /\ j \in Returned)
                /\ j \in Returned =>
                      \E k \in Returned :
                          /\ VisitedBefore(k, i)
                          /\ IoUExceeds(boxes[k], boxes[i], filterCall.arg)

\* C2 witness: the smaller box of an overlapping pair survives because the
\* larger one was suppressed
SmallerSurvives ==
    /\ filterCall.op = "overlap"
    /\ \E i, j \in 1..Len(boxes) :
          /\ VisitedBefore(i, j)
          /\ IoUExceeds(boxes[i], boxes[j], filterCall.arg)
          /\ j \in Returned
          /\ i \notin Returned

\* C3: filter_by_area returns exactly the input boxes whose area is
\* >= min_area, in input order; every returned box has area >= min_area and
\* raising min_area never increases the number of returned boxes.
AreaFilterExact ==
    filterCall.op = "area" =>
        LET idx == filterCall.idx
            m   == filterCall.arg
        IN  /\ Returned = { i \in 1..Len(boxes) : BoxArea(boxes[i]) >= m }
            /\ \A k, l \in 1..Len(idx) : k < l => idx[k] < idx[l]
            /\ filterCall.out = [k \in 1..Len(idx) |-> boxes[idx[k]]]
            /\ \A k \in 1..Len(filterCall.out) :
                  BoxArea(filterCall.out[k]) >= m
            /\ \A m2 \in MinAreas :
                  m2 >= m =>
                      Len(filter_boxes_by_area(boxes, m2)) <= Len(idx)

\* C3 witness: some boxes are dropped, some are kept, and a kept box comes
\* after a dropped one in the input
AreaFilterDropsSome ==
    /\ filterCall.op = "area"
    /\ Len(boxes) = 3
    /\ Len(filterCall.idx) = 2
    /\ 1 \notin Returned

----------------------------------------------------------------------------
(* Properties of the classifier (checked under SpecTeam) *)

\* score of the i-th registered team for the crop of the last call
ScoreOf(i) == TeamScore(teamCall.crop, filters[i].colors)

\* strictly smaller fraction
Less(p, q) == p[1] * q[2] < q[1] * p[2]

\* the teams whose score exceeds the minimum coverage of the last call
AboveCoverage ==
    { i \in 1..Len(filters) : Less(teamCall.min_coverage, ScoreOf(i)) }

\* the label is that of the top-scoring team, the earliest one among equals
LabelIsFirstBest ==
    \E i \in AboveCoverage :
        /\ teamCall.label = filters[i].name
        /\ \A j \in 1..Len(filters) : Leq(ScoreOf(j), ScoreOf(i))
        /\ \A j \in 1..(i - 1) : Less(ScoreOf(j), ScoreOf(i))

AllZero(crop) == \A k \in 1..Len(crop) : crop[k] = <<0, 0, 0>>

\* some registered range contains the HSV value of an all-zero pixel
ZeroRegistered ==
    \E i \in 1..Len(filters) :
        \E c \in 1..Len(filters[i].colors) :
            InRange(<<0, 0, 0>>, filters[i].colors[c])

Uniform(i) ==
    \E c \in 1..Len(filters[i].colors) :
        \A k \in 1..Len(teamCall.crop) :
            InRange(bgr2hsv(teamCall.crop[k]), filters[i].colors[c])

\* no pixel of the crop lies inside any registered range
NoPixelRegistered ==
    \A i \in 1..Len(filters) :
        \A c \in 1..Len(filters[i].colors) :
            \A k \in 1..Len(teamCall.crop) :
                ~InRange(bgr2hsv(teamCall.crop[k]), filters[i].colors[c])

----------------------------------------------------------------------------
(* Properties of the smoothing wrapper (checked under SpecSmooth) *)

\* s is the sequence of the last Len(s) elements of w
IsSuffix(s, w) == Len(s) <= Len(w) /\ s = LastN(Len(s), w)

\* the history the k-th detection of the last call was recorded in
HistoryBefore(k) ==
    IF k = 1 THEN smoothCall.before ELSE smoothCall.after[k - 1]

\* the window of the k-th detection's track id after it was recorded
WindowOf(k) == smoothCall.after[k][smoothCall.dets[k].track]

\* the position of the last occurrence of a label in a window, 0 if none
LastIndex(w, label) ==
    IF count(w, label) = 0 THEN 0
    ELSE CHOOSE k \in 1..Len(w) :
             w[k] = label /\ \A j \in (k + 1)..Len(w) : w[j] # label

\* C12: the history of every track id holds at most Window labels, and they
\* are the most recent raw labels of that track in arrival order; recording
\* a label appends it and, on a full window, evicts the oldest label and no
\* other.
HistoryIsRecentLabels ==
    /\ \A t \in TrackIds :
          /\ Len(history[t]) <= Window
          /\ IsSuffix(history[t], rawLog[t])
          /\ (rawLog[t] # <<>> /\ last_seen[t] < StaleAfter)
                => history[t] # <<>>
    /\ smoothCall.op = "predict" =>
          \A k \in Tracked(smoothCall.dets) :
              LET old == HistoryBefore(k)[smoothCall.dets[k].track]
                  raw == smoothCall.dets[k].raw
              IN  WindowOf(k) =
                      IF Len(old) < Window THEN Append(old, raw)
                      ELSE Append(Tail(old), raw)

\* C12 witness: a label was recorded in a full window, and the track has
\* received more labels than the window holds
OldestEvicted ==
    /\ smoothCall.op = "predict"
    /\ \E k \in Tracked(smoothCall.dets) :
          LET t == smoothCall.dets[k].track
          IN  /\ Len(HistoryBefore(k)[t]) = Window
              /\ Len(rawLog[t]) > Window
              /\ Len(history[t]) = Window
              /\ history[t][1] # HistoryBefore(k)[t][1]

\* C13: the label emitted for a tracked detection has the highest count in
\* the track's window after the new raw label was appended, and among the
\* labels with that count it is the one seen most recently; the window
\* X,X,Y,X yields X.
EmittedIsMajority ==
    smoothCall.op = "predict" =>
        \A k \in Tracked(smoothCall.dets) :
            LET w == WindowOf(k)
                l == smoothCall.labels[k]
            IN  /\ \A m \in Labels \ {l} :
                      \/ count(w, l) > count(w, m)
                      \/ /\ count(w, l) = count(w, m)
                         /\ LastIndex(w, l) > LastIndex(w, m)
                /\ \A X, Y \in Labels : w = <<X, X, Y, X>> => l = X

\* C13 witness: a track's window is X,X,Y,X with Y different from X and the
\* label emitted for it is X
SingleFlipKeepsLabel ==
    /\ smoothCall.op = "predict"
    /\ \E k \in Tracked(smoothCall.dets) :
          \E X, Y \in Labels :
              /\ X # Y
              /\ WindowOf(k) = <<X, X, Y, X>>
              /\ smoothCall.labels[k] = X

----------------------------------------------------------------------------
(* Properties of the possession attributor (checked under SpecMatch) *)

\* the integer nearest to h / 2, the even one when two are equally near
HalfEven(h) ==
    CHOOSE r \in (h \div 2)..(h \div 2 + 1) :
        /\ 2 * r - h \in {-1, 0, 1}
        /\ 2 * r # h => r % 2 = 0

\* the ball of frame f has a resolvable centre: it was built from a detection
HasCentre(f) == Len(f.detections) > 0

\* the centre of the ball detection of frame f, rounded to pixels
BallCentre(f) ==
    LET p == f.detections[1].points
    IN  <<HalfEven(p[1][1] + p[2][1]), HalfEven(p[1][2] + p[2][2])>>

\* the squared Euclidean distance between two points
Dist2(u, v) == (u[1] - v[1]) * (u[1] - v[1]) + (u[2] - v[2]) * (u[2] - v[2])

\* the (squared) distance of player k to the ball of frame f: the smaller of
\* the distances from the ball centre to the bottom-left and to the
\* bottom-right corner of the player's box
FootDistance(k, f) ==
    LET p == players[k].detection.points
    IN  Min(Dist2(BallCentre(f), <<p[1][1], p[2][2]>>),
            Dist2(BallCentre(f), <<p[2][1], p[2][2]>>))

Teamed == {k \in 1..Len(players) : players[k].team # None}

\* player k has a team and no player with a team is nearer to the ball
Nearest(k, f) ==
    /\ k \in Teamed
    /\ \A j \in Teamed : FootDistance(k, f) <= FootDistance(j, f)

\* the minimum distance over the players with a team is attained by a
\* player of team T
AttainedBy(T, f) ==
    /\ HasCentre(f)
    /\ \E k \in Teamed : Nearest(k, f) /\ players[k].team = Some(T)

\* the first player in input order that attains the minimum is of team T,
\* and the minimum is within the distance bound
WonBy(T, f) ==
    /\ HasCentre(f)
    /\ \E k \in Teamed :
          /\ Nearest(k, f)
          /\ \A j \in 1..(k - 1) : ~Nearest(j, f)
          /\ players[k].team = Some(T)
          /\ FootDistance(k, f) <= max_distance * max_distance

\* over frames i..j team T's counter grew by one per frame and no other
\* team's counter changed
GrewByRunLength(T, i, j) ==
    /\ run[j].after.teams[T].possession
           = run[i].before.teams[T].possession + (j - i + 1)
    /\ \A U \in TeamNames \ {T} :
          run[j].after.teams[U].possession
              = run[i].before.teams[U].possession

\* C15 (as stated): over any run of N consecutive frames in which the ball
\* has a centre and the minimum distance over the players with a team is
\* attained by a player of team T, T's possession counter grows by exactly N
\* and no other team's counter changes.
AttainedRunGrowsByN ==
    \A T \in TeamNames :
        \A i, j \in 1..Len(run) :
            (i <= j /\ \A m \in i..j : AttainedBy(T, run[m]))
                => GrewByRunLength(T, i, j)

\* C15 (amended): over any run of N consecutive frames in which the ball
\* has a centre, the minimum distance over the players with a team is
\* within the distance bound, and the first player in input order that
\* attains it is of team T, T's possession counter grows by exactly N and no
\* other team's counter changes.
WonRunGrowsByN ==
    \A T \in TeamNames :
        \A i, j \in 1..Len(run) :
            (i <= j /\ \A m \in i..j : WonBy(T, run[m]))
                => GrewByRunLength(T, i, j)

\* C15 witness: two consecutive frames with different ball detections were
\* won by the same team while a player of the other team was on the pitch
TwoFramesWon ==
    /\ Len(run) = 2
    /\ run[1].detections # run[2].detections
    /\ \E T \in TeamNames :
          /\ WonBy(T, run[1]) /\ WonBy(T, run[2])
          /\ match_teams[T].possession = 2
          /\ \E k \in Teamed : players[k].team # Some(T)

\* C16: in a frame where the ball has no resolvable centre or no player
\* carries a team, no possession counter changes, the team in possession
\* stays the same, and the ball has the colour of the team already in
\* possession, which is the colour the ball had in the frame before.
NoCentreNoChange ==
    (/\ matchCall.op = "update"
     /\ ~HasCentre(matchCall) \/ Teamed = {})
        => /\ \A T \in TeamNames :
                 matchCall.after.teams[T].possession
                     = matchCall.before.teams[T].possession
           /\ matchCall.after.team_possession
                  = matchCall.before.team_possession
           /\ team_possession = matchCall.before.team_possession
           /\ ball.color
                  = Some(TeamColor[matchCall.before.team_possession[1]])
           /\ Len(run) >= 2 => ball.color = run[Len(run) - 1].ball.color

\* C16 witness: a frame without ball detection follows a frame that gave
\* possession to another team than the one the match started with
NoBallAfterChange ==
    /\ Len(run) = 2
    /\ HasCentre(run[1])
    /\ run[1].after.team_possession # run[1].before.team_possession
    /\ ~HasCentre(run[2])
    /\ ball.detection = None
    /\ ball.color = run[1].ball.color
    /\ run[2].after = run[1].after

\* frame f added one to the counter of team T
Credited(T, f) ==
    f.after.teams[T].possession = f.before.teams[T].possession + 1

\* C17: the team credited with a frame is the team of the player whose
\* distance to the ball (the smaller of the distances from the ball centre
\* to the left and to the right foot) is minimal among the players with a
\* team; a player without a team is never chosen, and of several players
\* at the minimum the earliest in the input list is chosen.
PossessingTeamIsNearest ==
    matchCall.op = "update" =>
        /\ \A T \in TeamNames :
              Credited(T, matchCall) =>
                  /\ HasCentre(matchCall)
                  /\ \E k \in Teamed :
                        /\ Nearest(k, matchCall)
                        /\ \A j \in 1..(k - 1) : ~Nearest(j, matchCall)
                        /\ players[k].team = Some(T)
                  /\ team_possession = Some(T)
                  /\ \A U \in TeamNames \ {T} : ~Credited(U, matchCall)
        /\ \A T \in TeamNames :
              \/ Credited(T, matchCall)
              \/ matchCall.after.teams[T] = matchCall.before.teams[T]

\* C17 witness: two players of different teams are equally near and nearest,
\* and the frame is credited to the team of the first
TieGoesToEarliest ==
    /\ matchCall.op = "update"
    /\ HasCentre(matchCall)
    /\ Len(players) = 2
    /\ Nearest(1, matchCall) /\ Nearest(2, matchCall)
    /\ players[1].team # players[2].team
    /\ Credited(players[1].team[1], matchCall)
    /\ ~Credited(players[2].team[1], matchCall)

----------------------------------------------------------------------------
(* Properties of construction and loading (checked under SpecSetup) *)

\* the abbreviation is exactly three uppercase letters
ThreeUpperLetters(s) ==
    Len(s) = 3 /\ \A k \in 1..Len(s) : s[k] \in UpperChars

\* C18: constructing a Team raises whenever the abbreviation is not exactly
\* 3 characters long or is not made of uppercase letters only, and succeeds
\* for every abbreviation of exactly 3 uppercase letters.
AbbreviationValidated ==
    setupCall.op = "Team" =>
        (setupCall.result.raised <=> ~ThreeUpperLetters(setupIn.abbreviation))

\* C19: every constructed Ball has exactly one of detection and box set,
\* whatever arguments were passed; constructing a Ball with neither raises;
\* and center / center_abs are None exactly when the ball has no detection.
BallHasExactlyOne ==
    setupCall.op = "Ball" =>
        /\ setupCall.result.raised
               <=> (setupIn.detection = None /\ setupIn.box = None)
        /\ ~setupCall.result.raised =>
              /\ (setupCall.result.detection = None)
                     # (setupCall.result.box = None)
              /\ setupCall.center = None
                     <=> setupCall.result.detection = None
              /\ setupCall.center_abs = None
                     <=> setupCall.result.detection = None

\* C19 witness: a Ball was constructed with both a detection and a box; it
\* kept the detection only and has a centre in both coordinate systems
BallFromBoth ==
    /\ setupCall.op = "Ball"
    /\ setupIn.detection # None /\ setupIn.box # None
    /\ ~setupCall.result.raised
    /\ setupCall.result.detection = setupIn.detection
    /\ setupCall.result.box = None
    /\ setupCall.center # None
    /\ setupCall.center_abs # None
    /\ setupCall.center # setupCall.center_abs

\* an entry of the configuration lacks name or abbreviation
EntryIncomplete(config) ==
    \E k \in 1..Len(config.teams) :
        config.teams[k].name = None \/ config.teams[k].abbreviation = None

\* the name is given and names no listed team
NamesNoTeam(config, name) ==
    /\ name # None
    /\ \A k \in 1..Len(config.teams) : config.teams[k].name # name

\* the teams that list order can fall back to: the entries that are not the
\* referee
Listed(config) ==
    {k \in 1..Len(config.teams) :
        config.teams[k].name # Some("referee")}

\* C20: loading fails whenever the teams key is absent, a team entry lacks
\* name or abbreviation, or the home or away team cannot be resolved (its
\* name is given but names no listed team, or too few teams are listed to
\* fall back to list order when the name is absent).
LoadFailsOnBadConfig ==
    setupCall.op = "load" =>
        LET config == setupIn.config
        IN  (\/ ~config.has_teams
             \/ EntryIncomplete(config)
             \/ NamesNoTeam(config, config.match.home_team)
             \/ NamesNoTeam(config, config.match.away_team)
             \/ config.match.home_team = None
                    /\ Cardinality(Listed(config)) < 1
             \/ config.match.away_team = None
                    /\ Cardinality(Listed(config)) < 2)
                => setupCall.result.raised

\* Team.__eq__: two teams are equal when they have the same name
TeamEq(t, u) == t.name = u.name

\* the team is one of the entries of the configuration that is not the
\* referee
IsListedTeam(config, t) ==
    \E k \in Listed(config) : config.teams[k].name = Some(t.name)

\* C30: every successful load returns a match whose home and away teams are
\* two distinct listed teams (never the referee, never the same team twice)
\* and whose team in possession is the configured initial_possession team
\* when it names a listed team, otherwise the away team.
HomeAndAwayDistinct ==
    (setupCall.op = "load" /\ ~setupCall.result.raised) =>
        LET config == setupIn.config
            r      == setupCall.result
        IN  /\ ~TeamEq(r.home, r.away)
            /\ IsListedTeam(config, r.home)
            /\ IsListedTeam(config, r.away)
            /\ IsListedTeam(config, r.team_possession)
            /\ r.team_possession.name =
                   IF /\ config.match.initial_possession # None
                      /\ \E k \in Listed(config) :
                            config.teams[k].name
                                = config.match.initial_possession
                   THEN config.match.initial_possession[1]
                   ELSE r.away.name

\* the registry before the last call without its i-th entry
Without(fs, i) == SubSeq(fs, 1, i - 1) \o SubSeq(fs, i + 1, Len(fs))

\* the position of the first entry of fs called name, 0 if there is none
FirstWithName(fs, name) ==
    IF \A i \in 1..Len(fs) : fs[i].name # name THEN 0
    ELSE CHOOSE i \in 1..Len(fs) :
             fs[i].name = name /\ \A j \in 1..(i - 1) : fs[j].name # name

\* C25: remove_team_filter and update_team_colors return False and leave
\* the registry unchanged when no filter has the name; when they return True
\* exactly the first entry with the name is removed, respectively has its
\* colours replaced, and all other entries keep content and relative order;
\* an added entry goes to the end; get_team_names lists the names of the
\* current entries in registry order, as many as len(registry).
RegistryEditsOneEntry ==
    /\ teamCall.op \in {"remove", "update"} =>
          LET i == FirstWithName(teamCall.before, teamCall.name)
          IN  /\ teamCall.ret <=> i # 0
              /\ ~teamCall.ret => filters = teamCall.before
              /\ (teamCall.ret /\ teamCall.op = "remove")
                    => filters = Without(teamCall.before, i)
              /\ (teamCall.ret /\ teamCall.op = "update")
                    => /\ Len(filters) = Len(teamCall.before)
                       /\ \A j \in 1..Len(filters) :
                             filters[j] =
                                 IF j = i
                                 THEN [name |-> teamCall.name,
                                       colors |-> teamCall.colors]
                                 ELSE teamCall.before[j]
    /\ teamCall.op = "add" =>
          filters = Append(teamCall.before,
                           [name |-> teamCall.name,
                            colors |-> teamCall.colors])
    /\ teamCall.op = "names" =>
          /\ Len(teamCall.val) = teamCall.len
          /\ teamCall.len = Len(filters)
          /\ \A j \in 1..Len(filters) : teamCall.val[j] = filters[j].name

\* C25 witness: of two entries with the same name and different colours the
\* first was removed and the second is still registered
FirstOfTwoRemoved ==
    /\ teamCall.op = "remove"
    /\ teamCall.ret
    /\ Len(teamCall.before) = 2
    /\ teamCall.before[1].name = teamCall.before[2].name
    /\ teamCall.before[1].colors # teamCall.before[2].colors
    /\ filters = <<teamCall.before[2]>>

\* C26: team names in the registry are unique, so that right after
\* remove_team_filter(name) returned True, get_team_filter(name) returns
\* None and name is not among get_team_names().
NamesUnique ==
    /\ \A i, j \in 1..Len(filters) :
          filters[i].name = filters[j].name => i = j
    /\ (teamCall.op = "remove" /\ teamCall.ret) =>
          /\ get_team_filter(filters, teamCall.name) = <<>>
          /\ \A j \in 1..Len(filters) :
                get_team_names(filters)[j] # teamCall.name

\* the range of the static catalogue with the given name
Catalogue(color_name) ==
    all[CHOOSE i \in 1..Len(all) : all[i].name = color_name]

InCatalogue(color_name) == \E i \in 1..Len(all) : all[i].name = color_name

\* the Team Filter configuration has the teams key, every entry has name and
\* colors, and every colour name is the name of a catalogue range
FilterConfigValid(config) ==
    /\ config.has_teams
    /\ \A k \in 1..Len(config.teams) :
          /\ config.teams[k].name # <<>>
          /\ config.teams[k].colors # <<>>
          /\ \A c \in 1..Len(config.teams[k].colors[1]) :
                InCatalogue(config.teams[k].colors[1][c])

\* C21: loading a Team Filter configuration succeeds exactly when the teams
\* key is present, every entry has name and colors and every colour name is
\* the name of a range of the static catalogue; each team is then bound to
\* the catalogue ranges of those names in the listed order.
FilterConfigLoads ==
    setupCall.op = "from_config_file" =>
        LET config == setupIn.config
            r      == setupCall.result
        IN  /\ ~r.raised <=> FilterConfigValid(config)
            /\ ~r.raised =>
                  /\ Len(r.filters) = Len(config.teams)
                  /\ \A k \in 1..Len(config.teams) :
                        /\ r.filters[k].name = config.teams[k].name[1]
                        /\ r.filters[k].colors =
                               [c \in 1..Len(config.teams[k].colors[1]) |->
                                   Catalogue(config.teams[k].colors[1][c])]

\* the detection of the player carries a track id
CarriesId(p) == "id" \in DOMAIN p.detection.data

\* both players are there, both carry a track id, and the ids are the same
SameTrackId(player1, player2) ==
    /\ player1 # None /\ player2 # None
    /\ CarriesId(player1[1]) /\ CarriesId(player2[1])
    /\ player1[1].detection.data["id"] = player2[1].detection.data["id"]

\* C23: two Players are equal exactly when their detections
\* carry the same track id; have_same_id returns false when either player
\* is absent or either detection carries no id, and otherwise agrees with
\* that equality.
EqualByTrackId ==
    setupCall.op = "compare" =>
        /\ (setupIn.player1 # None /\ setupIn.player2 # None) =>
              /\ ~setupCall.eq.raised
              /\ setupCall.eq.val
                     <=> SameTrackId(setupIn.player1, setupIn.player2)
        /\ setupCall.have_same_id
               <=> SameTrackId(setupIn.player1, setupIn.player2)

\* the corner (x_min, y_max) and the corner (x_max, y_max) of two points
BottomLeft(pts) ==
    <<Min(pts[1][1], pts[2][1]), Max(pts[1][2], pts[2][2])>>

BottomRight(pts) ==
    <<Max(pts[1][1], pts[2][1]), Max(pts[1][2], pts[2][2])>>

\* C24: left_foot is (x_min, y_max) and right_foot is (x_max, y_max) of the
\* detection's two corner points, in frame coordinates and likewise in
\* absolute coordinates, whichever order the corner points are stored in.
FeetAreBottomCorners ==
    setupCall.op = "feet" =>
        LET d == setupIn.player1[1].detection
        IN  /\ setupCall.left_foot = BottomLeft(d.points)
            /\ setupCall.right_foot = BottomRight(d.points)
            /\ setupCall.left_foot_abs = BottomLeft(d.absolute_points)
            /\ setupCall.right_foot_abs = BottomRight(d.absolute_points)

\* some element of the list handed to predict_from_detections is not a
\* Detection
HasNonDetection ==
    \E i \in 1..Len(setupIn.detections) :
        "points" \notin DOMAIN setupIn.detections[i]

\* C22: predict_from_detections raises a type error when any element of
\* the list is not a Detection, before the classifier is invoked and before
\* the data of any detection of the list is modified.
RejectsNonDetectionFirst ==
    setupCall.op = "predict_from_detections" =>
        /\ setupCall.raised <=> HasNonDetection
        /\ setupCall.raised =>
              /\ setupCall.calls = <<>>
              /\ setupCall.detections = setupIn.detections

\* C22 witness: a list whose first element is a Detection and whose second
\* is not was rejected, and the Detection is as it was
DetectionBeforeBadElementUntouched ==
    /\ setupCall.op = "predict_from_detections"
    /\ Len(setupIn.detections) = 2
    /\ "points" \in DOMAIN setupIn.detections[1]
    /\ "points" \notin DOMAIN setupIn.detections[2]
    /\ setupCall.raised
    /\ setupCall.calls = <<>>
    /\ setupCall.detections[1].data = setupIn.detections[1].data

\* the pixels of the image inside the rectangle spanned by the two corner
\* points of a detection
OwnPixels(d) ==
    { px \in (0..(ImgRows - 1)) \X (0..(ImgCols - 1)) :
         /\ Min(d.points[1][2], d.points[2][2]) <= px[1]
         /\ px[1] < Max(d.points[1][2], d.points[2][2])
         /\ Min(d.points[1][1], d.points[2][1]) <= px[2]
         /\ px[2] < Max(d.points[1][1], d.points[2][1]) }

\* C27: when predict_from_detections returns for a list of n Detections it
\* returns the same n detections in the same order, each with
\* data["classification"] set to the label the classifier produced for that
\* detection's own crop; no detection is left without a classification.
EachGetsOwnLabel ==
    (setupCall.op = "predict_from_detections" /\ ~setupCall.raised) =>
        /\ Len(setupCall.detections) = Len(setupIn.detections)
        /\ Len(setupCall.calls) = 1
        /\ Len(setupCall.calls[1]) = Len(setupIn.detections)
        /\ \A i \in 1..Len(setupIn.detections) :
              LET before == setupIn.detections[i]
                  after == setupCall.detections[i]
                  crop == setupCall.calls[1][i]
              IN  /\ crop.pixels = OwnPixels(before)
                  /\ after.points = before.points
                  /\ after.absolute_points = before.absolute_points
                  /\ "classification" \in DOMAIN after.data
                  /\ after.data["classification"] = setupIn.classifier[crop]
                  /\ \A k \in DOMAIN before.data \ {"classification"} :
                        k \in DOMAIN after.data
                        /\ after.data[k] = before.data[k]

\* C27 witness: two detections whose crops the classifier labels
\* differently each carry their own label after the call
TwoCropsTwoLabels ==
    /\ setupCall.op = "predict_from_detections"
    /\ ~setupCall.raised
    /\ Len(setupIn.detections) = 2
    /\ setupCall.detections[1].data["classification"] = "home"
    /\ setupCall.detections[2].data["classification"] = "away"

\* the pixel (r, c) of an image of the given shape lies inside the box of a
\* DataFrame row enlarged by the margin on every side
InEnlargedBox(row, margin, r, c) ==
    /\ HalfEven(row.ymin) - margin <= r /\ r < HalfEven(row.ymax) + margin
    /\ HalfEven(row.xmin) - margin <= c /\ c < HalfEven(row.xmax) + margin

\* the mask is 0 exactly at the pixels inside some enlarged box, or, when
\* the goal counter is hidden too, inside the goal counter region
HidesExactly(m, rows, margin, goal) ==
    \A r \in 0..(m.shape[1] - 1), c \in 0..(m.shape[2] - 1) :
        LET boxed == \E k \in 1..Len(rows) :
                         InEnlargedBox(rows[k], margin, r, c)
            counter == /\ goal
                       /\ GoalRowStart <= r /\ r < GoalRowStop
                       /\ GoalColStart <= c /\ c < GoalColStop
        IN  (IF \E z \in m.zeros : /\ z.rows[1] <= r /\ r < z.rows[2]
                                   /\ z.cols[1] <= c /\ c < z.cols[2]
             THEN 0 ELSE 1)
            = (IF boxed \/ counter THEN 0 ELSE 1)

\* the rows of the DataFrame that create_mask builds from the detections
HiddenRows ==
    [i \in 1..Len(setupIn.detections) |->
        [xmin |-> 2 * setupIn.detections[i].points[1][1],
         ymin |-> 2 * setupIn.detections[i].points[1][2],
         xmax |-> 2 * setupIn.detections[i].points[2][1],
         ymax |-> 2 * setupIn.detections[i].points[2][2]]]

\* C28: generate_predictions_mask returns a mask of the image's height and
\* width in which a pixel is 0 if and only if it lies inside some
\* prediction's box enlarged by margin on every side (clipped to the image),
\* and 1 otherwise, also for boxes closer than margin to the top or left
\* edge; after create_mask the goal counter region is additionally all 0.
MaskHidesEnlargedBoxes ==
    /\ (setupCall.op = "generate_predictions_mask" /\ ~setupCall.raised) =>
          /\ setupCall.mask.shape = setupIn.shape
          /\ HidesExactly(setupCall.mask, setupIn.predictions.rows,
                          setupIn.margin, FALSE)
    /\ setupCall.op = "create_mask" =>
          /\ setupCall.mask.shape = setupIn.shape
          /\ HidesExactly(setupCall.mask, HiddenRows, MaskMargin, TRUE)

\* the phrases that mark an error of the estimator as a motion-estimation
\* failure; the last one is looked for whatever the case of the message
FailurePhrases ==
    { <<"findHomography">>,
      <<"at", "least", "4", "corresponding", "point", "sets">>,
      <<"'NoneType'", "object", "is", "not", "subscriptable">> }

HasPhrase(msg, phrase) ==
    \E k \in 1..Len(msg) :
        /\ k + Len(phrase) - 1 <= Len(msg)
        /\ \A j \in 1..Len(phrase) : msg[k + j - 1] = phrase[j]

NamesMotionFailure(msg) ==
    \/ \E phrase \in FailurePhrases : HasPhrase(msg, phrase)
    \/ \E k \in 1..(Len(msg) - 1) :
          /\ msg[k] \in {"sparse", "Sparse"}
          /\ msg[k + 1] \in {"flow", "Flow"}

\* the mask that hides the detections of the call with a margin and the
\* goal counter
MarginMask(margin) ==
    remove_goal_counter(
        IF setupIn.detections = <<>> THEN ones(setupIn.shape)
        ELSE generate_predictions_mask(
                 Detections_to_DataFrame(setupIn.detections),
                 setupIn.shape, margin).mask)

\* the four masks in the order margin 40, margin 20, goal counter only,
\* fully open
MasksInOrder ==
    << MarginMask(MaskMargin), MarginMask(FallbackMargin),
       remove_goal_counter(ones(setupIn.shape)), ones(setupIn.shape) >>

\* C29: update_motion_estimator calls the estimator's update at most four
\* times per frame, in the order margin-40 mask, margin-20 mask,
\* goal-counter-only mask, fully open mask; it returns the transformation of
\* the first attempt that succeeds and makes no attempt after it; it returns
\* None only after all four attempts failed; and when the first attempt
\* fails with an error whose message matches none of the recognised
\* motion-estimation failures, that error is propagated with no fallback
\* attempt.
FallbacksInOrder ==
    setupCall.op = "update_motion_estimator" =>
        LET estimator == setupIn.motion_estimator
            n == Len(setupCall.calls)
        IN  /\ n \in 1..4
            /\ \A i \in 1..n : setupCall.calls[i] = MasksInOrder[i]
            /\ \A i \in 1..(n - 1) : ~estimator[i].ok
            /\ (~estimator[1].ok
                    /\ ~NamesMotionFailure(estimator[1].message))
                   <=> setupCall.raised
            /\ IF setupCall.raised
               THEN /\ n = 1
                    /\ setupCall.message = estimator[1].message
               ELSE /\ setupCall.ret # None =>
                          /\ estimator[n].ok
                          /\ setupCall.ret
                                 = Some(estimator[n].transformation)
                    /\ setupCall.ret = None =>
                          /\ n = 4
                          /\ \A i \in 1..4 : ~estimator[i].ok

\* C29 witness: with a detection to hide, the first three attempts failed
\* and the fourth, with the fully open mask, gave the transformation; the
\* four masks differ from one another
FourthAttemptSucceeds ==
    /\ setupCall.op = "update_motion_estimator"
    /\ ~setupCall.raised
    /\ Len(setupCall.calls) = 4
    /\ setupIn.detections # <<>>
    /\ \A i, j \in 1..4 : i # j => setupCall.calls[i] # setupCall.calls[j]
    /\ setupCall.calls[4].zeros = {}
    /\ \A i \in 1..3 : ~setupIn.motion_estimator[i].ok
    /\ setupIn.motion_estimator[4].ok
    /\ setupCall.ret = Some(setupIn.motion_estimator[4].transformation)

====
